---- MODULE Spec2Model ----
(***************************************************************************)
(* Rich-text search and replace of telegram-channel-saver:                 *)
(*   src/src/formatting.py      span codec and replacement algorithm       *)
(*   src/src/search_replace.py  approval workflow, undo and restore        *)
(* Texts are sequences of one-character strings, offsets are 0-based as in *)
(* the source, persisted spans are records with a "_type" field and        *)
(* in-memory spans are records with a "cls" field.                         *)
(***************************************************************************)
EXTENDS Integers, Sequences, FiniteSets, TLC

VARIABLES
    pc,             \* position of the flow of control
    raw_text,       \* argument of a direct call of the algorithm
    entities,       \* argument of a direct call of the algorithm / codec
    search,         \* search string of the call or of the session
    replace,        \* replacement string of the call or of the session
    case_sensitive, \* case sensitivity of the call or of the session
    result,         \* value returned (or exception raised) by the call
    db,             \* db['messages'][channel_id]: msg_id -> message dict
    saved,          \* the database file as last written by save_database
    telegram,       \* the channel on Telegram: msg_id -> message
    matches,        \* queue of the running review session (message ids)
    idx,            \* position in matches / in the restorable list
    last_edit,      \* last edited message of the session (undo)
    counters,       \* applied, skipped, errors, restored, total_replacements
    edit_in_channel,\* mode of the session or of the restore run
    restorable,     \* list built by restore_edited_messages
    report,         \* what the last step printed for the operator
    runs            \* number of sessions and restore runs started so far

vars == <<pc, raw_text, entities, search, replace, case_sensitive, result,
          db, saved, telegram, matches, idx, last_edit, counters,
          edit_in_channel, restorable, report, runs>>

(***************************************************************************)
(* Characters and strings                                                  *)
(***************************************************************************)
BEL == "BEL"    \* chr(7), what the template escape \a denotes
BS  == "BS"     \* chr(8), what the template escape \b denotes

\* str.lower() on one character of the alphabet used here
Lower(c) == CASE c = "A" -> "a" [] c = "B" -> "b" [] OTHER -> c

\* does the compiled pattern re.escape(search) match text at 0-based pos
MatchAt(text, s, cs, pos) ==
    /\ pos + Len(s) <= Len(text)
    /\ \A k \in 1..Len(s) :
          IF cs THEN text[pos + k] = s[k]
                ELSE Lower(text[pos + k]) = Lower(s[k])

RECURSIVE FindFrom(_, _, _, _)
FindFrom(text, s, cs, pos) ==
    IF pos + Len(s) > Len(text) THEN <<>>
    ELSE IF MatchAt(text, s, cs, pos)
         THEN <<pos>> \o FindFrom(text, s, cs, pos + Len(s))
         ELSE FindFrom(text, s, cs, pos + 1)

\* pattern.finditer(raw_text): starts of the non-overlapping matches
finditer(text, s, cs) == FindFrom(text, s, cs, 0)

\* text[a:b] for 0 <= a
Slice(text, a, b) == SubSeq(text, a + 1, IF b > Len(text) THEN Len(text) ELSE b)

\* text[a:]
SliceFrom(text, a) == SubSeq(text, a + 1, Len(text))

(***************************************************************************)
(* Exceptions: a call that raises returns a record with an exc field       *)
(***************************************************************************)
Raise(name) == [exc |-> name]
IsExc(r) == "exc" \in DOMAIN r

(***************************************************************************)
(* Span codec                                                              *)
(***************************************************************************)
ENTITY_TYPES ==
    {"MessageEntityBold", "MessageEntityItalic", "MessageEntityStrike",
     "MessageEntityUnderline", "MessageEntityCode", "MessageEntityPre",
     "MessageEntityTextUrl", "MessageEntityUrl", "MessageEntityMention",
     "MessageEntityMentionName", "MessageEntityHashtag",
     "MessageEntityCashtag", "MessageEntityBotCommand", "MessageEntityEmail",
     "MessageEntityPhone", "MessageEntityBlockquote", "MessageEntitySpoiler",
     "MessageEntityCustomEmoji"}

None == [none |-> TRUE]

\* isinstance(e, dict): in-memory spans carry their class in cls, persisted
\* records are dicts, with or without a _type key
IsDict(e) == e # None /\ "cls" \notin DOMAIN e

Get(d, k, default) == IF k \in DOMAIN d THEN d[k] ELSE default

\* d[k] = v added to the dict d when cond holds
SetIf(d, cond, kv) == IF cond THEN d @@ kv ELSE d

entity_to_dict(entity) ==
    IF entity = None THEN None
    ELSE IF IsDict(entity) THEN Raise("AttributeError")
    ELSE
      LET d0 == [_type |-> entity.cls, offset |-> entity.offset,
                 length |-> entity.length]
          d1 == SetIf(d0, "url" \in DOMAIN entity /\ entity.url # <<>>,
                      [url |-> entity.url])
          d2 == SetIf(d1, "language" \in DOMAIN entity /\ entity.language # <<>>,
                      [language |-> entity.language])
          d3 == SetIf(d2, "user_id" \in DOMAIN entity /\ entity.user_id # 0,
                      [user_id |-> entity.user_id])
          d4 == SetIf(d3, "document_id" \in DOMAIN entity /\ entity.document_id # 0,
                      [document_id |-> entity.document_id])
          d5 == SetIf(d4, "collapsed" \in DOMAIN entity /\ entity.collapsed,
                      [collapsed |-> entity.collapsed])
      IN d5

\* dict_to_entity that builds MessageEntityPre from the url key
dict_to_entity_pre_url(d) ==
    IF d = None \/ DOMAIN d = {} \/ "_type" \notin DOMAIN d THEN None
    ELSE
      LET entity_type == d._type
          offset == Get(d, "offset", 0)
          length == Get(d, "length", 0)
          e0 == [cls |-> entity_type, offset |-> offset, length |-> length]
      IN IF entity_type \notin ENTITY_TYPES THEN None
         ELSE CASE entity_type = "MessageEntityTextUrl" ->
                     e0 @@ [url |-> Get(d, "url", <<>>)]
                [] entity_type = "MessageEntityPre" ->
                     e0 @@ [language |-> Get(d, "url", <<>>)]
                [] entity_type = "MessageEntityMentionName" ->
                     e0 @@ [user_id |-> Get(d, "user_id", 0)]
                [] entity_type = "MessageEntityCustomEmoji" ->
                     e0 @@ [document_id |-> Get(d, "document_id", 0)]
                [] entity_type = "MessageEntityBlockquote" ->
                     e0 @@ [collapsed |-> Get(d, "collapsed", FALSE)]
                [] OTHER -> e0

dict_to_entity(d) ==
    IF d = None \/ DOMAIN d = {} \/ "_type" \notin DOMAIN d THEN None
    ELSE
      LET entity_type == d._type
          offset == Get(d, "offset", 0)
          length == Get(d, "length", 0)
          e0 == [cls |-> entity_type, offset |-> offset, length |-> length]
      IN IF entity_type \notin ENTITY_TYPES THEN None
         ELSE CASE entity_type = "MessageEntityTextUrl" ->
                     e0 @@ [url |-> Get(d, "url", <<>>)]
                [] entity_type = "MessageEntityPre" ->
                     e0 @@ [language |-> Get(d, "language", <<>>)]
                [] entity_type = "MessageEntityMentionName" ->
                     e0 @@ [user_id |-> Get(d, "user_id", 0)]
                [] entity_type = "MessageEntityCustomEmoji" ->
                     e0 @@ [document_id |-> Get(d, "document_id", 0)]
                [] entity_type = "MessageEntityBlockquote" ->
                     e0 @@ [collapsed |-> Get(d, "collapsed", FALSE)]
                [] OTHER -> e0

\* [f(e) for e in seq]
Map(seq, f(_)) == [k \in 1..Len(seq) |-> f(seq[k])]

NotNone(e) == e # None

\* entity_to_dict raised for some element of the comprehension
HasExc(seq) == \E k \in 1..Len(seq) : IsExc(seq[k])

\* the list returned; HasExc of it tells that the comprehension raised
entities_to_dicts(ents) ==
    IF ents = <<>> THEN <<>>
    ELSE Map(SelectSeq(ents, NotNone), entity_to_dict)

dicts_to_entities(dicts) ==
    IF dicts = <<>> THEN <<>>
    ELSE SelectSeq(Map(dicts, dict_to_entity), NotNone)

(***************************************************************************)
(* Replacement algorithm                                                   *)
(***************************************************************************)
Max(a, b) == IF a >= b THEN a ELSE b

\* sorted(entity_objs, key=lambda e: e.offset), a stable sort
RECURSIVE SortByOffset(_)
SortByOffset(seq) ==
    IF seq = <<>> THEN <<>>
    ELSE LET front == SortByOffset(SubSeq(seq, 1, Len(seq) - 1))
             e == seq[Len(seq)]
             n == Cardinality({k \in 1..Len(front) : front[k].offset <= e.offset})
         IN SubSeq(front, 1, n) \o <<e>> \o SubSeq(front, n + 1, Len(front))

\* str.replace(old, new) for a non-empty old
RECURSIVE str_replace(_, _, _)
str_replace(s, old, new) ==
    IF Len(s) < Len(old) THEN s
    ELSE IF MatchAt(s, old, TRUE, 0)
         THEN new \o str_replace(SliceFrom(s, Len(old)), old, new)
         ELSE <<Head(s)>> \o str_replace(Tail(s), old, new)

\* the replacement template of re.sub: backslash escapes are processed,
\* a dangling backslash or an unknown letter escape is an error
RECURSIVE parse_template(_)
parse_template(repl) ==
    IF repl = <<>> THEN [ok |-> TRUE, text |-> <<>>]
    ELSE IF Head(repl) # "\\"
    THEN LET rest == parse_template(Tail(repl))
         IN [ok |-> rest.ok, text |-> <<Head(repl)>> \o rest.text]
    ELSE IF Len(repl) = 1 THEN [ok |-> FALSE, text |-> <<>>]
    ELSE LET c == repl[2]
             rest == parse_template(SubSeq(repl, 3, Len(repl)))
         IN CASE c = "\\" -> [ok |-> rest.ok, text |-> <<"\\">> \o rest.text]
              [] c = "a"  -> [ok |-> rest.ok, text |-> <<BEL>> \o rest.text]
              [] c = "b"  -> [ok |-> rest.ok, text |-> <<BS>> \o rest.text]
              [] c \in {"A", "B"} -> [ok |-> FALSE, text |-> <<>>]
              [] OTHER    -> [ok |-> rest.ok, text |-> <<"\\", c>> \o rest.text]

\* re.sub(re.escape(search), replace, url, flags=re.IGNORECASE) with an
\* already expanded template
RECURSIVE re_sub_ignorecase(_, _, _)
re_sub_ignorecase(s, old, new) ==
    IF Len(s) < Len(old) THEN s
    ELSE IF MatchAt(s, old, FALSE, 0)
         THEN new \o re_sub_ignorecase(SliceFrom(s, Len(old)), old, new)
         ELSE <<Head(s)>> \o re_sub_ignorecase(Tail(s), old, new)

\* AdjustEntity with the containment test ent_end > end
AdjustEntity_strict(ent, start, end, len_diff, adjusted_start, r) ==
    LET ent_start == ent.offset
        ent_end == ent.offset + ent.length
    IN IF ent_start >= end
       THEN [ent EXCEPT !.offset = @ + len_diff]
       ELSE IF ent_start <= start /\ ent_end > end
       THEN [ent EXCEPT !.length = @ + len_diff]
       ELSE IF start < ent_start /\ ent_start < end
       THEN [ent EXCEPT !.offset = adjusted_start + Len(r),
                        !.length = Max(0, @ - (end - ent_start))]
       ELSE IF start < ent_end /\ ent_end <= end
       THEN [ent EXCEPT !.length = Max(0, @ - (ent_end - start))]
       ELSE ent

\* the branches of the loop body over entity_objs, for one match
AdjustEntity(ent, start, end, len_diff, adjusted_start, r) ==
    LET ent_start == ent.offset
        ent_end == ent.offset + ent.length
    IN IF ent_start >= end
       THEN [ent EXCEPT !.offset = @ + len_diff]
       ELSE IF ent_start <= start /\ ent_end >= end
       THEN [ent EXCEPT !.length = @ + len_diff]
       ELSE IF start < ent_start /\ ent_start < end
       THEN [ent EXCEPT !.offset = adjusted_start + Len(r),
                        !.length = Max(0, @ - (end - ent_start))]
       ELSE IF start < ent_end /\ ent_end <= end
       THEN [ent EXCEPT !.length = Max(0, @ - (ent_end - start))]
       ELSE ent

\* one iteration of the loop over pattern.finditer(raw_text)
ApplyMatch(st, start, s, r) ==
    LET end == start + Len(s)
        len_diff == Len(r) - Len(s)
        adjusted_start == start + st.offset_delta
    IN [new_text |-> Slice(st.new_text, 0, adjusted_start) \o r
                       \o SliceFrom(st.new_text, adjusted_start + Len(s)),
        offset_delta |-> st.offset_delta + len_diff,
        replacement_count |-> st.replacement_count + 1,
        entity_objs |-> Map(st.entity_objs,
                            LAMBDA ent : AdjustEntity(ent, start, end, len_diff,
                                                      adjusted_start, r))]

RECURSIVE ApplyMatches(_, _, _, _)
ApplyMatches(st, ms, s, r) ==
    IF ms = <<>> THEN st
    ELSE ApplyMatches(ApplyMatch(st, Head(ms), s, r), Tail(ms), s, r)

\* the loop that replaces in the URL attribute of TextUrl entities
ReplaceUrl(ent, s, r, cs) ==
    IF ent.cls = "MessageEntityTextUrl" /\ ent.url # <<>>
    THEN IF cs THEN [ent EXCEPT !.url = str_replace(@, s, r)]
         ELSE [ent EXCEPT !.url = re_sub_ignorecase(@, s, parse_template(r).text)]
    ELSE ent

\* re.sub raises re.error while the URL loop runs
UrlLoopRaises(entity_objs, r, cs) ==
    /\ ~cs
    /\ ~parse_template(r).ok
    /\ \E k \in 1..Len(entity_objs) :
          /\ entity_objs[k].cls = "MessageEntityTextUrl"
          /\ entity_objs[k].url # <<>>

\* entity_objs: dicts are decoded (unknown ones dropped), objects copied
ToEntityObjs(ents) ==
    SelectSeq(Map(ents, LAMBDA e : IF IsDict(e) THEN dict_to_entity(e) ELSE e),
              NotNone)

search_replace_with_entities(text, ents, s, r, cs) ==
    IF text = <<>> \/ s = <<>>
    THEN IF HasExc(entities_to_dicts(ents)) THEN Raise("AttributeError")
         ELSE [new_text |-> text, new_entities |-> entities_to_dicts(ents),
               count |-> 0]
    ELSE
      LET entity_objs == SortByOffset(ToEntityObjs(ents))
          st0 == [new_text |-> text, offset_delta |-> 0,
                  replacement_count |-> 0, entity_objs |-> entity_objs]
          st == ApplyMatches(st0, finditer(text, s, cs), s, r)
          with_urls == Map(st.entity_objs, LAMBDA ent : ReplaceUrl(ent, s, r, cs))
      IN IF UrlLoopRaises(st.entity_objs, r, cs) THEN Raise("re.error")
         ELSE [new_text |-> st.new_text,
               new_entities |-> Map(SelectSeq(with_urls, LAMBDA e : e.length > 0),
                                    entity_to_dict),
               count |-> st.replacement_count]

\* entity_objs.append(e): the loops adjust the caller's own objects
Aliased_shared(e) == ~IsDict(e)

\* entity_objs.append(copy.copy(e)), and dict_to_entity(e) for a dict: the
\* loops never work on an element of the caller's list
Aliased(e) == FALSE

\* the object e after the loops of a call on text, were it worked on
AdjustedAlone(text, e, s, r, cs) ==
    ReplaceUrl(ApplyMatches([new_text |-> text, offset_delta |-> 0,
                             replacement_count |-> 0, entity_objs |-> <<e>>],
                            finditer(text, s, cs), s, r).entity_objs[1],
               s, IF cs \/ parse_template(r).ok THEN r ELSE <<>>, cs)

\* the caller's list after search_replace_with_entities(text, ents, ...)
\* returned: sorted() builds a new list, the elements are the caller's
ArgAfterCall(text, ents, s, r, cs) ==
    IF text = <<>> \/ s = <<>> THEN ents
    ELSE [k \in 1..Len(ents) |->
             IF Aliased(ents[k]) THEN AdjustedAlone(text, ents[k], s, r, cs)
             ELSE ents[k]]

(***************************************************************************)
(* Document snapshots                                                      *)
(***************************************************************************)
\* markdown.unparse(raw_text, entity_objs): the rendering is kept as the
\* text and the spans it renders; '' for an empty text
entities_to_markdown(text, ents) ==
    IF text = <<>> THEN [md_raw |-> <<>>, md_entities |-> <<>>]
    ELSE [md_raw |-> text, md_entities |-> dicts_to_entities(ents)]

\* markdown.parse(text)
get_entities_from_markdown(text) ==
    IF text.md_raw = <<>> THEN [raw_text |-> <<>>, entities |-> <<>>]
    ELSE [raw_text |-> text.md_raw,
          entities |-> entities_to_dicts(text.md_entities)]

get_message_entities(message_dict) ==
    IF message_dict.entities # <<>>
    THEN [raw_text |-> message_dict.raw_text,
          entities |-> message_dict.entities]
    ELSE IF message_dict.text.md_raw # <<>>
    THEN get_entities_from_markdown(message_dict.text)
    ELSE [raw_text |-> message_dict.raw_text, entities |-> <<>>]

\* search in raw_text, or search.lower() in raw_text.lower()
Contains(text, s, cs) == \E p \in 0..Len(text) : MatchAt(text, s, cs, p)

\* [e.get('url', '') for e in entities if isinstance(e, dict)]
AllUrls(ents) == Map(SelectSeq(ents, IsDict), LAMBDA e : Get(e, "url", <<>>))

\* [e.get('url', '') for e in entities if isinstance(e, dict) and e.get('url')]
NonEmptyUrls(ents) ==
    Map(SelectSeq(ents, LAMBDA e : IsDict(e) /\ Get(e, "url", <<>>) # <<>>),
        LAMBDA e : e.url)

\* sum(1 for old, new in zip(old_urls, new_urls) if old != new)
UrlChanges(old_urls, new_urls) ==
    Cardinality({k \in 1..Len(old_urls) :
                    k <= Len(new_urls) /\ old_urls[k] # new_urls[k]})

apply_replacement_to_message(message_dict, s, r, cs) ==
    LET got == get_message_entities(message_dict)
        has_url_match ==
            \E k \in 1..Len(got.entities) :
                /\ IsDict(got.entities[k])
                /\ Get(got.entities[k], "url", <<>>) # <<>>
                /\ Contains(got.entities[k].url, s, cs)
        res == search_replace_with_entities(got.raw_text, got.entities, s, r, cs)
    IN IF got.raw_text = <<>> THEN None
       ELSE IF ~Contains(got.raw_text, s, cs) /\ ~has_url_match THEN None
       ELSE IF IsExc(res) THEN res
       ELSE IF res.count = 0 /\ AllUrls(got.entities) = AllUrls(res.new_entities)
       THEN None
       ELSE [raw_text |-> res.new_text,
             entities |-> res.new_entities,
             text |-> entities_to_markdown(res.new_text, res.new_entities),
             replacement_count |-> res.count]

\* SortedIds by descending id
RECURSIVE SortedIds_descending(_)
SortedIds_descending(S) ==
    IF S = {} THEN <<>>
    ELSE LET most == CHOOSE m \in S : \A n \in S : m >= n
         IN <<most>> \o SortedIds_descending(S \ {most})

\* the ascending list of the elements of a set of message ids
RECURSIVE SortedIds(_)
SortedIds(S) ==
    IF S = {} THEN <<>>
    ELSE LET least == CHOOSE m \in S : \A n \in S : m <= n
         IN <<least>> \o SortedIds(S \ {least})

\* the queue: ids of the messages whose probe is not None, ascending
find_matching_messages(messages, s, cs) ==
    SortedIds({m \in DOMAIN messages :
                  apply_replacement_to_message(messages[m], s, <<>>, cs) # None})

\* the second probe of find_matching_messages raises
FindRaises(messages, s, cs) ==
    \E m \in DOMAIN messages :
        /\ apply_replacement_to_message(messages[m], s, <<>>, cs) # None
        /\ IsExc(apply_replacement_to_message(messages[m], s, s, cs))

\* d.update(kv)
Update(d, kv) == kv @@ d

(***************************************************************************)
(* Bounds and input domains                                                *)
(***************************************************************************)
MaxTextLen == 3      \* longest text of a direct call
MaxSearchLen == 2    \* longest search string of a direct call
MaxReplaceLen == 2   \* longest replacement string of a direct call
MaxSpans == 2        \* most spans of a direct call

\* all sequences over alphabet of length lo..hi
SeqsOf(alphabet, lo, hi) ==
    UNION {[1..n -> alphabet] : n \in lo..hi}

TextAlphabet == {"a", "A", "b"}
SearchAlphabet == {"a", "b"}
ReplaceAlphabet == {"b", "\\"}
UrlValues == {<<"a", "A">>}

\* persisted spans of the replacement calls, inside a text of length n
SpansIn(n) ==
    UNION { UNION {
      {[_type |-> "MessageEntityBold", offset |-> o, length |-> l]}
      \cup {[_type |-> "MessageEntityTextUrl", offset |-> o, length |-> l,
             url |-> u] : u \in UrlValues}
      : l \in 1..(n - o)} : o \in 0..n}

\* the subsets of S with at most k elements
RECURSIVE KSubsets(_, _)
KSubsets(S, k) ==
    IF k = 0 THEN {{}}
    ELSE LET prev == KSubsets(S, k - 1)
         IN prev \cup {x \cup {a} : x \in prev, a \in S}

KindRank(d) == CASE d._type = "MessageEntityBold" -> 0
                 [] d._type = "MessageEntityTextUrl" -> 1
                 [] OTHER -> 2

SpanKey(d) == d.offset * 100 + d.length * 10 + KindRank(d)

\* a span set as the list a caller passes, here by descending offset
RECURSIVE ListOf(_)
ListOf(S) ==
    IF S = {} THEN <<>>
    ELSE LET top == CHOOSE d \in S : \A e \in S : SpanKey(e) <= SpanKey(d)
         IN <<top>> \o ListOf(S \ {top})

SpanLists(S) == {ListOf(x) : x \in KSubsets(S, MaxSpans)}

\* no session and no restore run is active
NoLastEdit == [msg_id |-> 0]
ZeroCounters == [applied |-> 0, skipped |-> 0, errors |-> 0, restored |-> 0,
                 total_replacements |-> 0]

NoWorkflow ==
    /\ db = <<>>
    /\ saved = <<>>
    /\ telegram = <<>>
    /\ matches = <<>>
    /\ idx = 0
    /\ last_edit = NoLastEdit
    /\ counters = ZeroCounters
    /\ edit_in_channel = FALSE
    /\ restorable = <<>>
    /\ report = "none"
    /\ runs = 0

workflow_vars == <<db, saved, telegram, matches, idx, last_edit, counters,
                   edit_in_channel, restorable, report, runs>>
call_vars == <<raw_text, entities, search, replace, case_sensitive>>

(***************************************************************************)
(* Direct calls of the replacement algorithm                               *)
(***************************************************************************)
InitReplace ==
    /\ pc = "call"
    /\ raw_text \in SeqsOf(TextAlphabet, 0, MaxTextLen)
    /\ entities \in SpanLists(SpansIn(Len(raw_text)))
    /\ search \in SeqsOf(SearchAlphabet, 1, MaxSearchLen)
    /\ replace \in SeqsOf(ReplaceAlphabet, 0, MaxReplaceLen)
    /\ case_sensitive \in BOOLEAN
    /\ result = None
    /\ NoWorkflow

CallReplace ==
    /\ pc = "call"
    /\ result' = search_replace_with_entities(raw_text, entities, search,
                                              replace, case_sensitive)
    /\ pc' = "returned"
    /\ UNCHANGED <<call_vars, workflow_vars>>

NextReplace == CallReplace

SpecReplace == InitReplace /\ [][NextReplace]_vars

(***************************************************************************)
(* Properties of the replacement algorithm                                 *)
(***************************************************************************)
Returned == pc = "returned"

\* the precondition on spans: inside the text and not empty
ValidSpans(text, ents) ==
    \A k \in 1..Len(ents) :
        /\ ents[k].offset >= 0
        /\ ents[k].length > 0
        /\ ents[k].offset + ents[k].length <= Len(text)

\* every non-overlapping occurrence, found left to right, replaced
RECURSIVE ReplaceEvery(_, _, _, _)
ReplaceEvery(text, s, r, cs) ==
    IF Len(text) < Len(s) THEN text
    ELSE IF MatchAt(text, s, cs, 0)
         THEN r \o ReplaceEvery(SliceFrom(text, Len(s)), s, r, cs)
         ELSE <<Head(text)>> \o ReplaceEvery(Tail(text), s, r, cs)

\* the number of those occurrences
RECURSIVE CountEvery(_, _, _)
CountEvery(text, s, cs) ==
    IF Len(text) < Len(s) THEN 0
    ELSE IF MatchAt(text, s, cs, 0)
         THEN 1 + CountEvery(SliceFrom(text, Len(s)), s, cs)
         ELSE CountEvery(Tail(text), s, cs)

\* the 0-based starts of those occurrences
RECURSIVE OccFrom(_, _, _, _)
OccFrom(text, s, cs, p) ==
    IF p + Len(s) > Len(text) THEN {}
    ELSE IF MatchAt(text, s, cs, p)
         THEN {p} \cup OccFrom(text, s, cs, p + Len(s))
         ELSE OccFrom(text, s, cs, p + 1)

Occurrences == OccFrom(raw_text, search, case_sensitive, 0)

SameKind(out, sp) == out._type = sp._type

\* C1: after a call of replace on spans that lie inside the text and are
\* not empty, every returned span has 0 <= offset and
\* offset + length <= len(new_text).
C1_OffsetInvariant ==
    (Returned /\ ValidSpans(raw_text, entities) /\ ~IsExc(result)) =>
        \A k \in 1..Len(result.new_entities) :
            /\ 0 <= result.new_entities[k].offset
            /\ result.new_entities[k].offset + result.new_entities[k].length
                 <= Len(result.new_text)

\* C3: with two or more occurrences and len(replace) # len(search), a span
\* that intersects no occurrence is returned with its length and with its
\* offset shifted by (occurrences entirely before it) * (len(replace) -
\* len(search)); it is not dropped.
C3_SpansStayAligned ==
    (/\ Returned /\ ~IsExc(result) /\ ValidSpans(raw_text, entities)
     /\ Cardinality(Occurrences) >= 2 /\ Len(replace) # Len(search)) =>
        \A k \in 1..Len(entities) :
            LET sp == entities[k]
                disjoint == \A p \in Occurrences :
                                \/ sp.offset + sp.length <= p
                                \/ sp.offset >= p + Len(search)
                before == Cardinality({p \in Occurrences :
                                         p + Len(search) <= sp.offset})
            IN disjoint =>
                 \E j \in 1..Len(result.new_entities) :
                    /\ SameKind(result.new_entities[j], sp)
                    /\ result.new_entities[j].length = sp.length
                    /\ result.new_entities[j].offset =
                         sp.offset + before * (Len(replace) - Len(search))

\* C4: for every text, non-empty search, replace and case_sensitive the
\* call returns the text with every non-overlapping occurrence replaced
\* and the number of those occurrences.
C4_TextResult ==
    Returned =>
        /\ ~IsExc(result)
        /\ result.new_text = ReplaceEvery(raw_text, search, replace, case_sensitive)
        /\ result.count = CountEvery(raw_text, search, case_sensitive)

\* the rules of the claim for one span and the single occurrence [start, end)
ResolveSingle(sp, start, end, d, r) ==
    IF sp.offset >= end
    THEN [offset |-> sp.offset + d, length |-> sp.length]
    ELSE IF sp.offset <= start /\ sp.offset + sp.length >= end
    THEN [offset |-> sp.offset, length |-> sp.length + d]
    ELSE IF start < sp.offset /\ sp.offset < end
    THEN [offset |-> start + Len(r),
          length |-> Max(0, sp.length - (end - sp.offset))]
    ELSE IF start < sp.offset + sp.length /\ sp.offset + sp.length <= end
    THEN [offset |-> sp.offset,
          length |-> Max(0, sp.length - (sp.offset + sp.length - start))]
    ELSE [offset |-> sp.offset, length |-> sp.length]

\* C5: with exactly one occurrence every input span is resolved by the
\* first matching rule, and spans whose length is then <= 0 are dropped.
C5_SingleOccurrence ==
    (Returned /\ Cardinality(Occurrences) = 1) =>
        LET start == CHOOSE p \in Occurrences : TRUE
            end == start + Len(search)
            d == Len(replace) - Len(search)
            sorted == SortByOffset(entities)
            resolved == Map(sorted, LAMBDA sp :
                            [_type |-> sp._type] @@
                            ResolveSingle(sp, start, end, d, replace))
            expected == SelectSeq(resolved, LAMBDA e : e.length > 0)
        IN /\ ~IsExc(result)
           /\ Len(result.new_entities) = Len(expected)
           /\ \A k \in 1..Len(expected) :
                 /\ result.new_entities[k]._type = expected[k]._type
                 /\ result.new_entities[k].offset = expected[k].offset
                 /\ result.new_entities[k].length = expected[k].length

\* C6: the URL payload of every returned span is the original payload with
\* every occurrence of search replaced literally by replace, under the
\* case_sensitive setting of the call, and match_count counts only the
\* occurrences in the text.
C6_UrlPayload ==
    (Returned /\ ~IsExc(result)) =>
        /\ result.count = CountEvery(raw_text, search, case_sensitive)
        /\ \A j \in 1..Len(result.new_entities) :
              result.new_entities[j]._type = "MessageEntityTextUrl" =>
                 \E k \in 1..Len(entities) :
                    /\ entities[k]._type = "MessageEntityTextUrl"
                    /\ Get(result.new_entities[j], "url", <<>>) =
                         ReplaceEvery(Get(entities[k], "url", <<>>), search,
                                      replace, case_sensitive)

(***************************************************************************)
(* Identity calls: search equals replace, case sensitive                   *)
(***************************************************************************)
NonOverlapping(ents) ==
    \A j, k \in 1..Len(ents) :
        j # k => \/ ents[j].offset + ents[j].length <= ents[k].offset
                 \/ ents[k].offset + ents[k].length <= ents[j].offset

\* the calls of the claim: span sets without overlap and without empty span
InitIdentity ==
    /\ pc = "call"
    /\ raw_text \in SeqsOf(SearchAlphabet, 0, MaxTextLen)
    /\ entities \in {l \in SpanLists(SpansIn(Len(raw_text))) : NonOverlapping(l)}
    /\ search \in SeqsOf(SearchAlphabet, 1, MaxSearchLen)
    /\ replace = search
    /\ case_sensitive = TRUE
    /\ result = None
    /\ NoWorkflow

SpecIdentity == InitIdentity /\ [][NextReplace]_vars

NoEmptySpan(ents) == \A k \in 1..Len(ents) : ents[k].length > 0

\* no span starts or ends strictly inside a replaced occurrence
NoBoundaryInsideOccurrence(ents) ==
    \A k \in 1..Len(ents) : \A p \in Occurrences :
        /\ ~(p < ents[k].offset /\ ents[k].offset < p + Len(search))
        /\ ~(/\ p < ents[k].offset + ents[k].length
             /\ ents[k].offset + ents[k].length < p + Len(search))

IdentityCall == Returned /\ replace = search /\ case_sensitive

\* the call returned the text, the span set and the occurrence count
IdentityResult ==
    /\ ~IsExc(result)
    /\ result.new_text = raw_text
    /\ Len(result.new_entities) = Len(entities)
    /\ {result.new_entities[k] : k \in 1..Len(result.new_entities)}
         = {entities[k] : k \in 1..Len(entities)}
    /\ result.count = CountEvery(raw_text, search, TRUE)

\* C2 as stated: replace(T, S, x, x, true) returns T, S and the number of
\* occurrences of x for every non-overlapping S without empty spans, also
\* when a span starts or ends inside an occurrence.
C2_IdentityAsStated ==
    (IdentityCall /\ NonOverlapping(entities) /\ NoEmptySpan(entities)) =>
        IdentityResult

\* C2 amended: replace(T, S, x, x, true) returns T, S and the number of
\* occurrences of x for every non-overlapping S without empty spans in
\* which no span starts or ends strictly inside an occurrence of x.
C2_IdentityReplacement ==
    (/\ IdentityCall /\ NonOverlapping(entities) /\ NoEmptySpan(entities)
     /\ NoBoundaryInsideOccurrence(entities)) =>
        IdentityResult

\* an identity call on two spans, one of them a link whose URL contains x,
\* one of them exactly over one of two occurrences
C2_Witness ==
    /\ IdentityCall /\ NonOverlapping(entities) /\ NoEmptySpan(entities)
    /\ NoBoundaryInsideOccurrence(entities)
    /\ Cardinality(Occurrences) = 2
    /\ Len(entities) = 2
    /\ \E k \in 1..2 : \E p \in Occurrences :
          /\ entities[k].offset = p
          /\ entities[k].length = Len(search)
    /\ \E k \in 1..2 :
          /\ entities[k]._type = "MessageEntityTextUrl"
          /\ CountEvery(entities[k].url, search, TRUE) > 0
    /\ result.count = 2

(***************************************************************************)
(* Direct calls of the span codec                                          *)
(***************************************************************************)
MaxOffset == 2      \* largest offset and length of an encoded span
MaxId == 2          \* largest user or asset reference of an encoded span

PayloadStrings == {<<>>, <<"a">>, <<"a", "b">>}

\* in-memory spans of every kind with every payload value
EntityObjects ==
    UNION { UNION {
      {[cls |-> c, offset |-> o, length |-> l] :
          c \in ENTITY_TYPES \ {"MessageEntityTextUrl", "MessageEntityPre",
                                "MessageEntityMentionName",
                                "MessageEntityCustomEmoji",
                                "MessageEntityBlockquote"}}
      \cup {[cls |-> "MessageEntityTextUrl", offset |-> o, length |-> l,
             url |-> u] : u \in PayloadStrings}
      \cup {[cls |-> "MessageEntityPre", offset |-> o, length |-> l,
             language |-> u] : u \in PayloadStrings}
      \cup {[cls |-> "MessageEntityMentionName", offset |-> o, length |-> l,
             user_id |-> i] : i \in 0..MaxId}
      \cup {[cls |-> "MessageEntityCustomEmoji", offset |-> o, length |-> l,
             document_id |-> i] : i \in 0..MaxId}
      \cup {[cls |-> "MessageEntityBlockquote", offset |-> o, length |-> l,
             collapsed |-> b] : b \in BOOLEAN}
      : l \in 0..MaxOffset} : o \in 0..MaxOffset}

InitCodec ==
    /\ pc = "encode"
    /\ entities \in {<<e>> : e \in EntityObjects}
    /\ raw_text = <<>> /\ search = <<>> /\ replace = <<>>
    /\ case_sensitive = TRUE
    /\ result = None
    /\ NoWorkflow

Encode ==
    /\ pc = "encode"
    /\ result' = entity_to_dict(entities[1])
    /\ pc' = "decode"
    /\ UNCHANGED <<call_vars, workflow_vars>>

Decode ==
    /\ pc = "decode"
    /\ result' = dict_to_entity(result)
    /\ pc' = "decoded"
    /\ UNCHANGED <<call_vars, workflow_vars>>

NextCodec == Encode \/ Decode

SpecCodec == InitCodec /\ [][NextCodec]_vars

\* C7: decode(encode(s)) = s for every span kind and every payload value,
\* the empty, zero and false payloads included.
C7_CodecRoundTrip == pc = "decoded" => result = entities[1]

\* a round trip of a span whose payload is empty, zero or false, which the
\* encoding leaves out
C7_Witness ==
    /\ pc = "decoded"
    /\ \E k \in {"url", "language", "user_id", "document_id", "collapsed"} :
          /\ k \in DOMAIN entities[1]
          /\ k \notin DOMAIN entity_to_dict(entities[1])
    /\ result = entities[1]

(***************************************************************************)
(* The approval workflow                                                   *)
(***************************************************************************)
MaxRuns == 2         \* sessions and restore runs started in one behaviour

MsgIds == {1, 2}

Bold(o, l) == [_type |-> "MessageEntityBold", offset |-> o, length |-> l]
TextUrl(o, l, u) == [_type |-> "MessageEntityTextUrl", offset |-> o,
                     length |-> l, url |-> u]

\* a message as download_messages stored it
StoredMsg(text, ents) ==
    [raw_text |-> text, entities |-> ents,
     text |-> entities_to_markdown(text, ents),
     edit_history |-> <<>>,
     edited_on_telegram |-> FALSE, restored_from_backup |-> FALSE]

\* a message as it is on Telegram
TelegramMsg(text, ents) == [raw_text |-> text, entities |-> dicts_to_entities(ents)]

\* backup_entry without the can_restore mark
BackupEntry_unmarked(msg, fresh_raw_text, fresh_entities_dicts, s, r) ==
    [action |-> "channel_search_replace",
     search |-> s,
     replace |-> r,
     telegram_raw_text |-> fresh_raw_text,
     telegram_text |-> entities_to_markdown(fresh_raw_text, fresh_entities_dicts),
     telegram_entities |-> fresh_entities_dicts,
     local_raw_text |-> msg.raw_text,
     local_text |-> msg.text,
     local_entities |-> msg.entities]

\* backup_entry of _process_channel_edits
BackupEntry(msg, fresh_raw_text, fresh_entities_dicts, s, r) ==
    [action |-> "channel_search_replace",
     search |-> s,
     replace |-> r,
     telegram_raw_text |-> fresh_raw_text,
     telegram_text |-> entities_to_markdown(fresh_raw_text, fresh_entities_dicts),
     telegram_entities |-> fresh_entities_dicts,
     local_raw_text |-> msg.raw_text,
     local_text |-> msg.text,
     local_entities |-> msg.entities,
     can_restore |-> TRUE]

\* EditedMsg that records the backup and leaves the local content as it was
EditedMsg_unmirrored(msg, backup_entry, new_raw_text, new_entities_dicts) ==
    [msg EXCEPT !.edit_history = Append(@, backup_entry),
                !.edited_on_telegram = TRUE]

\* the message after a channel edit: backup appended, new content mirrored
EditedMsg(msg, backup_entry, new_raw_text, new_entities_dicts) ==
    [msg EXCEPT !.edit_history = Append(@, backup_entry),
                !.raw_text = new_raw_text,
                !.text = entities_to_markdown(new_raw_text, new_entities_dicts),
                !.entities = new_entities_dicts,
                !.edited_on_telegram = TRUE]

\* a stored message that an earlier run of the program edited in the
\* channel, replacing s by r
EarlierEdited(msg, s, r) ==
    LET res == search_replace_with_entities(msg.raw_text,
                                            dicts_to_entities(msg.entities),
                                            s, r, TRUE)
    IN EditedMsg(msg, BackupEntry(msg, msg.raw_text, msg.entities, s, r),
                 res.new_text, res.new_entities)

\* the stored messages of the database as loaded
StoredContents(m) ==
    IF m = 1
    THEN {StoredMsg(<<"a", "b">>, <<Bold(0, 1)>>),
          EarlierEdited(StoredMsg(<<"a", "b">>, <<Bold(0, 1)>>), <<"a">>, <<"b">>)}
    ELSE {StoredMsg(<<"b">>, <<TextUrl(0, 1, <<"a">>)>>)}

\* what the channel holds for a stored message: the same content, content
\* edited since the download, an empty text, or nothing (deleted)
TelegramContents(m, msg) ==
    IF m = 1
    THEN {TelegramMsg(msg.raw_text, msg.entities),
          TelegramMsg(<<"a", "a">>, <<Bold(1, 1)>>),
          None}
    ELSE {TelegramMsg(msg.raw_text, msg.entities),
          TelegramMsg(<<"b">>, <<TextUrl(0, 1, <<"a">>), Bold(1, 0)>>),
          TelegramMsg(<<>>, <<>>)}

\* the search parameters an operator enters
SessionParams ==
    {[search |-> <<"a">>, replace |-> <<"b">>, case_sensitive |-> TRUE],
     [search |-> <<"a">>, replace |-> <<>>, case_sensitive |-> TRUE],
     [search |-> <<"b">>, replace |-> <<"a">>, case_sensitive |-> FALSE]}

\* outcomes of client.edit_message
EditOutcomes == {"ok", "MESSAGE_NOT_MODIFIED", "MESSAGE_AUTHOR_REQUIRED",
                 "CHAT_ADMIN_REQUIRED", "other"}

\* the outcomes Telegram can give to an edit with this content
edit_message(m, text, ents) ==
    IF telegram[m] # None /\ telegram[m].raw_text = text
                          /\ telegram[m].entities = ents
    THEN EditOutcomes \ {"ok"}
    ELSE EditOutcomes \ {"MESSAGE_NOT_MODIFIED"}

Init ==
    /\ pc = "menu"
    /\ db \in {d \in [MsgIds -> UNION {StoredContents(m) : m \in MsgIds}] :
                  \A m \in MsgIds : d[m] \in StoredContents(m)}
    /\ telegram \in {t \in [MsgIds -> UNION {TelegramContents(m, db[m]) : m \in MsgIds}] :
                        \A m \in MsgIds : t[m] \in TelegramContents(m, db[m])}
    /\ saved = db
    /\ matches = <<>>
    /\ idx = 0
    /\ last_edit = NoLastEdit
    /\ counters = ZeroCounters
    /\ edit_in_channel = FALSE
    /\ restorable = <<>>
    /\ report = "none"
    /\ runs = 0
    /\ raw_text = <<>> /\ entities = <<>> /\ result = None
    /\ search = <<>> /\ replace = <<>> /\ case_sensitive = TRUE

Bump(c, field, n) == [c EXCEPT ![field] = @ + n]

\* search_replace_messages: mode and parameters are asked, the queue is
\* built, and the review loop starts when the queue is not empty
search_replace_messages ==
    /\ pc = "menu"
    /\ runs < MaxRuns
    /\ \E mode \in BOOLEAN, p \in SessionParams :
          LET found == find_matching_messages(db, p.search, p.case_sensitive)
          IN /\ edit_in_channel' = mode
             /\ search' = p.search
             /\ replace' = p.replace
             /\ case_sensitive' = p.case_sensitive
             /\ IF FindRaises(db, p.search, p.case_sensitive)
                THEN /\ report' = "exception"
                     /\ UNCHANGED <<pc, matches, idx>>
                ELSE IF found = <<>>
                THEN /\ report' = "no_messages_found"
                     /\ UNCHANGED <<pc, matches, idx>>
                ELSE /\ report' = "found"
                     /\ pc' = "review"
                     /\ matches' = found
                     /\ idx' = 1
    /\ runs' = runs + 1
    /\ counters' = ZeroCounters
    /\ last_edit' = NoLastEdit
    /\ UNCHANGED <<db, saved, telegram, restorable, raw_text, entities, result>>

\* the message under review and its preview (display_and_get_action)
CurrentId == matches[idx]
CurrentMsg == db[matches[idx]]
actual_preview == apply_replacement_to_message(CurrentMsg, search, replace,
                                               case_sensitive)

\* url_replacements of display_and_get_action
url_replacements ==
    UrlChanges(NonEmptyUrls(get_message_entities(CurrentMsg).entities),
               NonEmptyUrls(actual_preview.entities))

\* the operator is asked for a choice
Prompted == pc = "review" /\ actual_preview # None /\ ~IsExc(actual_preview)

\* Continue that shows the same item again
Continue_stays(le, stop) ==
    IF ~stop /\ idx < Len(matches)
    THEN /\ pc' = "review" /\ idx' = idx /\ last_edit' = le
         /\ UNCHANGED matches
    ELSE IF edit_in_channel /\ le # NoLastEdit
    THEN /\ pc' = "final_undo" /\ last_edit' = le
         /\ UNCHANGED <<idx, matches>>
    ELSE /\ pc' = "menu" /\ last_edit' = NoLastEdit
         /\ idx' = 0 /\ matches' = <<>>

\* the for loop goes on with the next item, or ends: then, with a last
\* edit in channel mode, the undo question follows, else the summary
Continue(le, stop) ==
    IF ~stop /\ idx < Len(matches)
    THEN /\ pc' = "review" /\ idx' = idx + 1 /\ last_edit' = le
         /\ UNCHANGED matches
    ELSE IF edit_in_channel /\ le # NoLastEdit
    THEN /\ pc' = "final_undo" /\ last_edit' = le
         /\ UNCHANGED <<idx, matches>>
    ELSE /\ pc' = "menu" /\ last_edit' = NoLastEdit
         /\ idx' = 0 /\ matches' = <<>>

session_params == <<search, replace, case_sensitive, edit_in_channel>>
direct_call == <<raw_text, entities, result>>

\* last_edit after a channel edit; the backup entry is the one appended
LastEdit(m, msg, total_changes) ==
    [msg_id |-> m, backup_entry |-> Len(msg.edit_history),
     count |-> total_changes]

\* ItemEnds that leaves the loop
ItemEnds_stops(field, what) ==
    /\ counters' = Bump(counters, field, 1)
    /\ report' = what
    /\ Continue(last_edit, TRUE)
    /\ UNCHANGED <<db, saved, telegram>>

\* the item fails or is a no-op: a counter moves, nothing else
ItemEnds(field, what) ==
    /\ counters' = Bump(counters, field, 1)
    /\ report' = what
    /\ Continue(last_edit, FALSE)
    /\ UNCHANGED <<db, saved, telegram>>

\* get_messages that answers with the locally stored copy
get_messages_cached(m) ==
    IF telegram[m] = None THEN None
    ELSE TelegramMsg(db[m].raw_text, db[m].entities)

\* client.get_messages(active['id'], ids=int(msg_id)): the message as the
\* channel holds it now, or None
get_messages(m) == telegram[m]

\* action == 'approve' in _process_channel_edits
ApproveChannel ==
    /\ Prompted
    /\ edit_in_channel
    /\ LET m == CurrentId
           msg == CurrentMsg
           telegram_msg == get_messages(m)
       IN IF telegram_msg = None THEN ItemEnds("errors", "not_found")
          ELSE IF telegram_msg.raw_text = <<>> THEN ItemEnds("errors", "no_text")
          ELSE
            LET fresh_raw_text == telegram_msg.raw_text
                fresh_entities == telegram_msg.entities
                res == search_replace_with_entities(fresh_raw_text, fresh_entities,
                                                    search, replace, case_sensitive)
                fresh_entities_dicts ==
                    entities_to_dicts(ArgAfterCall(fresh_raw_text, fresh_entities,
                                                   search, replace, case_sensitive))
                url_changes == UrlChanges(NonEmptyUrls(fresh_entities_dicts),
                                          NonEmptyUrls(res.new_entities))
                total_changes == res.count + url_changes
                new_entity_objs == dicts_to_entities(res.new_entities)
                backup_entry == BackupEntry(msg, fresh_raw_text, fresh_entities_dicts,
                                            search, replace)
                edited == EditedMsg(msg, backup_entry, res.new_text, res.new_entities)
            IN IF IsExc(res) THEN ItemEnds("errors", "error")
               ELSE IF res.count = 0 /\ url_changes = 0
               THEN ItemEnds("skipped", "no_replacements")
               ELSE \E outcome \in edit_message(m, res.new_text, new_entity_objs) :
                      CASE outcome = "ok" ->
                             /\ telegram' = [telegram EXCEPT ![m] =
                                   [raw_text |-> res.new_text,
                                    entities |-> new_entity_objs]]
                             /\ db' = [db EXCEPT ![m] = edited]
                             /\ saved' = db'
                             /\ counters' = Bump(Bump(counters, "applied", 1),
                                                 "total_replacements", total_changes)
                             /\ report' = "edited"
                             /\ Continue(LastEdit(m, edited, total_changes), FALSE)
                        [] outcome = "MESSAGE_NOT_MODIFIED" ->
                             ItemEnds("skipped", "not_modified")
                        [] outcome = "MESSAGE_AUTHOR_REQUIRED" ->
                             ItemEnds("errors", "not_author")
                        [] outcome = "CHAT_ADMIN_REQUIRED" ->
                             ItemEnds("errors", "admin_required")
                        [] OTHER -> ItemEnds("errors", "error")
    /\ UNCHANGED <<session_params, restorable, runs, direct_call>>

\* the message after a local edit: original kept in the history, the
\* preview stored
LocallyEditedMsg(msg, preview_data) ==
    [msg EXCEPT !.edit_history = Append(@,
                     [action |-> "search_replace",
                      search |-> search,
                      replace |-> replace,
                      original_raw_text |-> msg.raw_text,
                      original_text |-> msg.text,
                      original_entities |-> msg.entities]),
                !.raw_text = preview_data.raw_text,
                !.text = preview_data.text,
                !.entities = preview_data.entities]

\* action == 'approve' in _process_local_edits
ApproveLocal ==
    /\ Prompted
    /\ ~edit_in_channel
    /\ db' = [db EXCEPT ![CurrentId] = LocallyEditedMsg(CurrentMsg, actual_preview)]
    /\ saved' = db'
    /\ counters' = Bump(Bump(counters, "applied", 1), "total_replacements",
                        actual_preview.replacement_count + url_replacements)
    /\ report' = "updated_locally"
    /\ Continue(last_edit, FALSE)
    /\ UNCHANGED <<telegram, session_params, restorable, runs, direct_call>>

\* Skip that forgets the last edit
Skip_forgets ==
    /\ pc = "review"
    /\ ~IsExc(actual_preview)
    /\ counters' = Bump(counters, "skipped", 1)
    /\ report' = "skipped"
    /\ Continue(NoLastEdit, FALSE)
    /\ UNCHANGED <<db, saved, telegram, session_params, restorable, runs,
                   direct_call>>

\* action == 'skip': the operator's choice, or no preview for the item
Skip ==
    /\ pc = "review"
    /\ ~IsExc(actual_preview)
    /\ counters' = Bump(counters, "skipped", 1)
    /\ report' = "skipped"
    /\ Continue(last_edit, FALSE)
    /\ UNCHANGED <<db, saved, telegram, session_params, restorable, runs,
                   direct_call>>

\* Quit that goes on with the next item
Quit_goes_on ==
    /\ Prompted
    /\ report' = "quit"
    /\ Continue(last_edit, FALSE)
    /\ UNCHANGED <<db, saved, telegram, counters, session_params, restorable,
                   runs, direct_call>>

\* action == 'quit'
Quit ==
    /\ Prompted
    /\ report' = "quit"
    /\ Continue(last_edit, TRUE)
    /\ UNCHANGED <<db, saved, telegram, counters, session_params, restorable,
                   runs, direct_call>>

\* action == 'cancel'
Cancel ==
    /\ Prompted
    /\ report' = "cancelled"
    /\ Continue(last_edit, TRUE)
    /\ UNCHANGED <<db, saved, telegram, counters, session_params, restorable,
                   runs, direct_call>>

\* last_edit kept when the undo failed
LastEditAfterUndo_kept(undo_result, le) ==
    IF undo_result THEN NoLastEdit ELSE le

\* last_edit after an undo decision, whatever undo_result is
LastEditAfterUndo(undo_result, le) == NoLastEdit

\* the backup entry after a successful undo
UndoneEntry(backup) == Update(backup, [restored |-> TRUE, can_restore |-> FALSE])

\* UndoneMsg that restores the local copy kept in the backup
UndoneMsg_local(msg, k) ==
    LET backup == msg.edit_history[k]
    IN [msg EXCEPT !.edit_history[k] = UndoneEntry(backup),
                   !.raw_text = backup.local_raw_text,
                   !.text = backup.local_text,
                   !.entities = backup.local_entities,
                   !.restored_from_backup = TRUE]

\* the message after a successful undo: backup marked, local copy restored
UndoneMsg(msg, k) ==
    LET backup == msg.edit_history[k]
    IN [msg EXCEPT !.edit_history[k] = UndoneEntry(backup),
                   !.raw_text = backup.telegram_raw_text,
                   !.text = backup.telegram_text,
                   !.entities = backup.telegram_entities,
                   !.restored_from_backup = TRUE]

\* _undo_last_edit whose caller leaves total_replacements as it is
_undo_last_edit_keeps_total(outcome) ==
    LET m == last_edit.msg_id
        backup == db[m].edit_history[last_edit.backup_entry]
    IN IF outcome = "ok"
       THEN /\ telegram' = [telegram EXCEPT ![m] =
                 [raw_text |-> backup.telegram_raw_text,
                  entities |-> dicts_to_entities(backup.telegram_entities)]]
            /\ db' = [db EXCEPT ![m] = UndoneMsg(db[m], last_edit.backup_entry)]
            /\ saved' = db'
            /\ counters' = Bump(Bump(counters, "applied", -1), "restored", 1)
            /\ report' = "undone"
       ELSE /\ report' = "undo_failed"
            /\ UNCHANGED <<db, saved, telegram, counters>>

\* _undo_last_edit that marks the backup entry before the push
_undo_last_edit_marks_first(outcome) ==
    LET m == last_edit.msg_id
        backup == db[m].edit_history[last_edit.backup_entry]
    IN IF outcome = "ok"
       THEN /\ telegram' = [telegram EXCEPT ![m] =
                 [raw_text |-> backup.telegram_raw_text,
                  entities |-> dicts_to_entities(backup.telegram_entities)]]
            /\ db' = [db EXCEPT ![m] = UndoneMsg(db[m], last_edit.backup_entry)]
            /\ saved' = db'
            /\ counters' = Bump(Bump(Bump(counters, "applied", -1),
                                     "total_replacements", -last_edit.count),
                                "restored", 1)
            /\ report' = "undone"
       ELSE /\ db' = [db EXCEPT ![m].edit_history[last_edit.backup_entry] =
                          UndoneEntry(backup)]
            /\ report' = "undo_failed"
            /\ UNCHANGED <<saved, telegram, counters>>

\* _undo_last_edit with the given outcome of client.edit_message; what it
\* returns is undo_result, here outcome = "ok"
_undo_last_edit(outcome) ==
    LET m == last_edit.msg_id
        backup == db[m].edit_history[last_edit.backup_entry]
    IN IF outcome = "ok"
       THEN /\ telegram' = [telegram EXCEPT ![m] =
                 [raw_text |-> backup.telegram_raw_text,
                  entities |-> dicts_to_entities(backup.telegram_entities)]]
            /\ db' = [db EXCEPT ![m] = UndoneMsg(db[m], last_edit.backup_entry)]
            /\ saved' = db'
            /\ counters' = Bump(Bump(Bump(counters, "applied", -1),
                                     "total_replacements", -last_edit.count),
                                "restored", 1)
            /\ report' = "undone"
       ELSE /\ report' = "undo_failed"
            /\ UNCHANGED <<db, saved, telegram, counters>>

\* the outcomes of the edit an undo of last_edit sends
UndoOutcomes ==
    LET m == last_edit.msg_id
        backup == db[m].edit_history[last_edit.backup_entry]
    IN edit_message(m, backup.telegram_raw_text,
                    dicts_to_entities(backup.telegram_entities))

\* action == 'undo' in the review loop; the loop then continues
Undo ==
    /\ Prompted
    /\ edit_in_channel
    /\ last_edit # NoLastEdit
    /\ \E outcome \in UndoOutcomes :
          /\ _undo_last_edit(outcome)
          /\ Continue(LastEditAfterUndo(outcome = "ok", last_edit), FALSE)
    /\ UNCHANGED <<session_params, restorable, runs, direct_call>>

\* the question after the loop: undo the last edit (y), then the summary
FinalUndo ==
    /\ pc = "final_undo"
    /\ \E outcome \in UndoOutcomes : _undo_last_edit(outcome)
    /\ pc' = "menu" /\ last_edit' = NoLastEdit /\ idx' = 0 /\ matches' = <<>>
    /\ UNCHANGED <<session_params, restorable, runs, direct_call>>

\* the question after the loop answered with no, then the summary
FinalKeep ==
    /\ pc = "final_undo"
    /\ report' = "summary"
    /\ pc' = "menu" /\ last_edit' = NoLastEdit /\ idx' = 0 /\ matches' = <<>>
    /\ UNCHANGED <<db, saved, telegram, counters, session_params, restorable,
                   runs, direct_call>>

(***************************************************************************)
(* Restore from the edit history                                           *)
(***************************************************************************)
\* entry.get('can_restore') and entry.get('telegram_raw_text')
IsRestorable(entry) ==
    /\ Get(entry, "can_restore", FALSE)
    /\ Get(entry, "telegram_raw_text", <<>>) # <<>>

\* the entries with index i or more of message m that can be restored
RECURSIVE RestorableFrom(_, _, _)
RestorableFrom(messages, m, i) ==
    IF i > Len(messages[m].edit_history) THEN <<>>
    ELSE (IF IsRestorable(messages[m].edit_history[i])
          THEN <<[msg_id |-> m, history_index |-> i]>> ELSE <<>>)
         \o RestorableFrom(messages, m, i + 1)

\* the list restore_edited_messages builds, message by message
RECURSIVE RestorableList(_, _)
RestorableList(messages, ids) ==
    IF ids = <<>> THEN <<>>
    ELSE RestorableFrom(messages, Head(ids), 1)
         \o RestorableList(messages, Tail(ids))

\* restore_edited_messages up to the loop: the list is built, the mode is
\* asked (3 and a refused warning cancel)
restore_edited_messages ==
    /\ pc = "menu"
    /\ runs < MaxRuns
    /\ LET list == RestorableList(db, SortedIds(DOMAIN db))
       IN IF list = <<>>
          THEN /\ report' = "no_restorable"
               /\ UNCHANGED <<pc, restorable, idx, edit_in_channel, counters>>
          ELSE \E mode_choice \in {"1", "2", "3"} :
                 IF mode_choice = "3"
                 THEN /\ report' = "cancelled"
                      /\ UNCHANGED <<pc, restorable, idx, edit_in_channel,
                                     counters>>
                 ELSE /\ report' = "restore_started"
                      /\ pc' = "restore"
                      /\ restorable' = list
                      /\ idx' = 1
                      /\ edit_in_channel' = (mode_choice = "2")
                      /\ counters' = ZeroCounters
    /\ runs' = runs + 1
    /\ UNCHANGED <<db, saved, telegram, matches, last_edit, search, replace,
                   case_sensitive, direct_call>>

\* the loop over restorable goes on, or ends with the summary
ContinueRestore(stop) ==
    IF ~stop /\ idx < Len(restorable)
    THEN pc' = "restore" /\ idx' = idx + 1 /\ UNCHANGED restorable
    ELSE pc' = "menu" /\ idx' = 0 /\ restorable' = <<>>

\* RestoredEntry that leaves can_restore as it is
RestoredEntry_kept(entry) == Update(entry, [restored |-> TRUE])

\* the history entry after a restore on Telegram
RestoredEntry(entry) == Update(entry, [restored |-> TRUE, can_restore |-> FALSE])

\* the history entry after a local-only restore
LocallyRestoredEntry(entry) ==
    Update(entry, [restored |-> TRUE, restored_locally_only |-> TRUE])

\* the message after a restore on Telegram
RestoredMsg(msg, i) ==
    LET entry == msg.edit_history[i]
    IN [msg EXCEPT !.edit_history[i] = RestoredEntry(entry),
                   !.raw_text = entry.telegram_raw_text,
                   !.text = Get(entry, "telegram_text", entities_to_markdown(<<>>, <<>>)),
                   !.entities = Get(entry, "telegram_entities", <<>>),
                   !.restored_from_backup = TRUE]

\* the message after a local-only restore
LocallyRestoredMsg(msg, i) ==
    LET entry == msg.edit_history[i]
    IN [msg EXCEPT !.edit_history[i] = LocallyRestoredEntry(entry),
                   !.raw_text = entry.telegram_raw_text,
                   !.text = Get(entry, "telegram_text", entities_to_markdown(<<>>, <<>>)),
                   !.entities = Get(entry, "telegram_entities", <<>>)]

RestoreEnds(field, what) ==
    /\ counters' = Bump(counters, field, 1)
    /\ report' = what
    /\ UNCHANGED <<db, saved, telegram>>

\* choice == 'r' in the loop of restore_edited_messages
Restore ==
    /\ pc = "restore"
    /\ LET item == restorable[idx]
           m == item.msg_id
           msg == db[m]
           entry == msg.edit_history[item.history_index]
           original_raw_text == Get(entry, "telegram_raw_text", <<>>)
           original_entities == Get(entry, "telegram_entities", <<>>)
       IN IF original_raw_text = <<>> THEN RestoreEnds("errors", "no_backup")
          ELSE IF edit_in_channel
          THEN \E outcome \in edit_message(m, original_raw_text,
                                           dicts_to_entities(original_entities)) :
                 CASE outcome = "ok" ->
                        /\ telegram' = [telegram EXCEPT ![m] =
                              [raw_text |-> original_raw_text,
                               entities |-> dicts_to_entities(original_entities)]]
                        /\ db' = [db EXCEPT ![m] = RestoredMsg(msg, item.history_index)]
                        /\ saved' = db'
                        /\ counters' = Bump(counters, "restored", 1)
                        /\ report' = "restored"
                   [] outcome = "MESSAGE_NOT_MODIFIED" ->
                        RestoreEnds("skipped", "not_modified")
                   [] outcome = "MESSAGE_AUTHOR_REQUIRED" ->
                        RestoreEnds("errors", "not_author")
                   [] OTHER -> RestoreEnds("errors", "error")
          ELSE /\ db' = [db EXCEPT ![m] = LocallyRestoredMsg(msg, item.history_index)]
               /\ saved' = db'
               /\ counters' = Bump(counters, "restored", 1)
               /\ report' = "restored_locally"
               /\ UNCHANGED telegram
    /\ ContinueRestore(FALSE)
    /\ UNCHANGED <<matches, last_edit, session_params, runs, direct_call>>

\* choice == 's', or an invalid choice
RestoreSkip ==
    /\ pc = "restore"
    /\ RestoreEnds("skipped", "skipped")
    /\ ContinueRestore(FALSE)
    /\ UNCHANGED <<matches, last_edit, session_params, runs, direct_call>>

\* choice == 'q'
RestoreQuit ==
    /\ pc = "restore"
    /\ report' = "quit"
    /\ ContinueRestore(TRUE)
    /\ UNCHANGED <<db, saved, telegram, counters, matches, last_edit,
                   session_params, runs, direct_call>>

Next ==
    \/ search_replace_messages
    \/ ApproveChannel
    \/ ApproveLocal
    \/ Skip
    \/ Quit
    \/ Cancel
    \/ Undo
    \/ FinalUndo
    \/ FinalKeep
    \/ restore_edited_messages
    \/ Restore
    \/ RestoreSkip
    \/ RestoreQuit

Spec == Init /\ [][Next]_vars

(***************************************************************************)
(* Properties of the workflow                                              *)
(***************************************************************************)
\* the history entries of the database
Entries == {e \in MsgIds \X (1..(MaxRuns + 1)) : e[2] <= Len(db[e[1]].edit_history)}
Entry(e) == db[e[1]].edit_history[e[2]]
CanRestore(entry) == Get(entry, "can_restore", FALSE)
WasRestored(entry) == Get(entry, "restored", FALSE)

\* the step restores the record under restorable[idx]
RestoreSucceeds == pc = "restore" /\ report' \in {"restored", "restored_locally"}
RestoredOnTelegram == pc = "restore" /\ report' = "restored"

\* a record that cannot be restored is never changed again
ConsumedIsFinal ==
    \A e \in Entries : ~CanRestore(Entry(e)) =>
        db'[e[1]].edit_history[e[2]] = Entry(e)

\* the records still listed by the running restore loop can be restored
ListedAreRestorable ==
    pc = "restore" =>
        \A k \in idx..Len(restorable) :
            IsRestorable(db[restorable[k].msg_id]
                           .edit_history[restorable[k].history_index])

\* C8 as stated: with either restore target, a Restore that succeeds is
\* the first on its record and consumes it (restorable becomes false); a
\* consumed record is never restored or changed again.
C8_RestoreAsStated ==
    [][/\ RestoreSucceeds =>
            LET m == restorable[idx].msg_id
                i == restorable[idx].history_index
            IN /\ IsRestorable(db[m].edit_history[i])
               /\ ~WasRestored(db[m].edit_history[i])
               /\ ~CanRestore(db'[m].edit_history[i])
       /\ ConsumedIsFinal]_vars

\* C8 amended: a Restore is accepted only on a restorable record; a Restore
\* on the remote store that succeeds consumes the record (restorable false,
\* restored true); a consumed record is never listed, restored or changed
\* again. A local-only Restore leaves the record restorable.
C8_RestoreOnce ==
    /\ []ListedAreRestorable
    /\ [][/\ RestoreSucceeds =>
               IsRestorable(db[restorable[idx].msg_id]
                              .edit_history[restorable[idx].history_index])
          /\ RestoredOnTelegram =>
               LET after == db'[restorable[idx].msg_id]
                              .edit_history[restorable[idx].history_index]
               IN ~CanRestore(after) /\ WasRestored(after)
          /\ ConsumedIsFinal]_vars

\* a restore on Telegram has just consumed a record while another record
\* is still waiting in the list
C8_Witness ==
    /\ report = "restored"
    /\ \E e \in Entries : WasRestored(Entry(e)) /\ ~CanRestore(Entry(e))
                          /\ telegram[e[1]].raw_text = Entry(e).telegram_raw_text
    /\ runs = MaxRuns

\* the step is a successful channel edit of the item under review
CommitStep == pc = "review" /\ report' = "edited"
\* the step is an undo that succeeded
UndoStep == report' = "undone"
\* the step is an undo decision
UndoDecision == report' \in {"undone", "undo_failed"}

\* C9: a successful channel edit sets last_edit to the record it appended,
\* which is restorable and holds the content fetched before the edit; a
\* successful undo then makes the remote content and the local raw_text,
\* entities and text equal to that record's snapshot, clears last_edit and
\* leaves the record restored and no longer restorable.
C9_UndoFlow ==
    [][/\ CommitStep =>
            LET m == matches[idx]
                k == Len(db'[m].edit_history)
                rec == db'[m].edit_history[k]
            IN /\ k = Len(db[m].edit_history) + 1
               /\ last_edit'.msg_id = m
               /\ last_edit'.backup_entry = k
               /\ rec.can_restore
               /\ rec.telegram_raw_text = telegram[m].raw_text
               /\ rec.telegram_entities = entities_to_dicts(telegram[m].entities)
       /\ UndoStep =>
            LET m == last_edit.msg_id
                k == last_edit.backup_entry
                rec == db[m].edit_history[k]
                after == db'[m].edit_history[k]
            IN /\ telegram'[m].raw_text = rec.telegram_raw_text
               /\ entities_to_dicts(telegram'[m].entities) = rec.telegram_entities
               /\ db'[m].raw_text = rec.telegram_raw_text
               /\ db'[m].entities = rec.telegram_entities
               /\ db'[m].text = rec.telegram_text
               /\ last_edit' = NoLastEdit
               /\ WasRestored(after) /\ ~CanRestore(after)]_vars

\* an undo has just restored a message whose local copy differed from the
\* fetched one when it was edited
C9_Witness ==
    /\ report = "undone"
    /\ last_edit = NoLastEdit
    /\ \E e \in Entries :
          /\ WasRestored(Entry(e)) /\ ~CanRestore(Entry(e))
          /\ Entry(e).local_raw_text # Entry(e).telegram_raw_text
          /\ db[e[1]].raw_text = Entry(e).telegram_raw_text
          /\ telegram[e[1]].raw_text = Entry(e).telegram_raw_text

InSession == pc \in {"review", "final_undo"}

\* last_edit is empty or refers to the last, still restorable entry of a
\* message of the queue, in channel mode
LastEditIsLatest ==
    /\ ~InSession => last_edit = NoLastEdit
    /\ last_edit # NoLastEdit =>
          /\ edit_in_channel
          /\ \E j \in 1..Len(matches) : matches[j] = last_edit.msg_id
          /\ last_edit.backup_entry = Len(db[last_edit.msg_id].edit_history)
          /\ CanRestore(db[last_edit.msg_id].edit_history[last_edit.backup_entry])

\* C10: last_edit holds at most one record; it is set by every successful
\* channel edit to that edit's record (the last, restorable entry of the
\* message), cleared by every undo decision, and left alone by skipped,
\* no-op and failed items; an undo decision is taken only in channel mode
\* while last_edit is set, and an undo succeeds only on a record that was
\* not undone before.
C10_SingleLevelUndo ==
    /\ []LastEditIsLatest
    /\ [][/\ CommitStep =>
               /\ last_edit'.msg_id = matches[idx]
               /\ last_edit'.backup_entry = Len(db'[matches[idx]].edit_history)
          /\ UndoDecision =>
               /\ InSession /\ edit_in_channel
               /\ last_edit # NoLastEdit
               /\ last_edit' = NoLastEdit
          /\ UndoStep =>
               /\ CanRestore(db[last_edit.msg_id].edit_history[last_edit.backup_entry])
               /\ ~CanRestore(db'[last_edit.msg_id].edit_history[last_edit.backup_entry])
          /\ (InSession /\ ~CommitStep /\ ~UndoDecision /\ report' # "summary") =>
               last_edit' = last_edit
          /\ ConsumedIsFinal]_vars

\* two channel edits in one session: last_edit is the second one
C10_Witness ==
    /\ pc = "final_undo"
    /\ counters.applied = 2
    /\ last_edit # NoLastEdit
    /\ last_edit.msg_id = 2
    /\ CanRestore(db[1].edit_history[Len(db[1].edit_history)])

\* the step is an approved local edit
LocalCommitStep == pc = "review" /\ report' = "updated_locally"

\* the record is one a local edit appended
IsLocalRecord(entry) == entry.action = "search_replace"

\* C11 as stated: every record of the history, appended in local mode or
\* in channel mode, is restorable, or restored and no longer restorable.
C11_EveryRecordRestorable ==
    \A e \in Entries :
        \/ IsRestorable(Entry(e))
        \/ WasRestored(Entry(e)) /\ ~CanRestore(Entry(e))

\* C11 amended: a record appended by a channel edit is restorable from the
\* step that appends it until a successful undo or a successful restore on
\* Telegram, which leaves it restored and not restorable for good; a record
\* appended by a local edit is never restorable.
C11_ChannelRecordsRestorable ==
    /\ [](\A e \in Entries :
            IF IsLocalRecord(Entry(e))
            THEN ~IsRestorable(Entry(e)) /\ ~WasRestored(Entry(e))
            ELSE \/ IsRestorable(Entry(e))
                 \/ WasRestored(Entry(e)) /\ ~CanRestore(Entry(e)))
    /\ [][/\ CommitStep =>
               LET m == matches[idx]
               IN /\ Len(db'[m].edit_history) = Len(db[m].edit_history) + 1
                  /\ IsRestorable(db'[m].edit_history[Len(db'[m].edit_history)])
          /\ LocalCommitStep =>
               LET m == matches[idx]
               IN /\ Len(db'[m].edit_history) = Len(db[m].edit_history) + 1
                  /\ ~IsRestorable(db'[m].edit_history[Len(db'[m].edit_history)])
          /\ \A e \in Entries :
               (IsRestorable(Entry(e))
                  /\ ~IsRestorable(db'[e[1]].edit_history[e[2]])) =>
                 /\ \/ UndoStep /\ last_edit.msg_id = e[1]
                                /\ last_edit.backup_entry = e[2]
                    \/ RestoredOnTelegram /\ restorable[idx].msg_id = e[1]
                                          /\ restorable[idx].history_index = e[2]
                 /\ WasRestored(db'[e[1]].edit_history[e[2]])
          /\ ConsumedIsFinal]_vars

\* a message holds a record of a local edit, which no restore run lists,
\* next to a record of a channel edit that is still restorable
C11_Witness ==
    \E m \in MsgIds : \E i, j \in 1..Len(db[m].edit_history) :
        /\ IsLocalRecord(db[m].edit_history[i])
        /\ ~IsRestorable(db[m].edit_history[i])
        /\ ~IsLocalRecord(db[m].edit_history[j])
        /\ IsRestorable(db[m].edit_history[j])
        /\ RestorableList(db, SortedIds(DOMAIN db))
             = <<[msg_id |-> m, history_index |-> j]>>

\* C12: every successful channel edit pushes the result of the algorithm
\* on the copy the channel holds when the item is handled, not on the
\* stored copy, and the record it appends holds that fetched copy as the
\* content before the edit.
C12_FreshContent ==
    [][CommitStep =>
         LET m == matches[idx]
             fresh == telegram[m]
             res == search_replace_with_entities(fresh.raw_text, fresh.entities,
                                                 search, replace, case_sensitive)
             rec == db'[m].edit_history[Len(db'[m].edit_history)]
         IN /\ fresh # None
            /\ ~IsExc(res)
            /\ telegram'[m].raw_text = res.new_text
            /\ telegram'[m].entities = dicts_to_entities(res.new_entities)
            /\ db'[m].raw_text = res.new_text
            /\ db'[m].entities = res.new_entities
            /\ rec.telegram_raw_text = fresh.raw_text
            /\ rec.telegram_entities = entities_to_dicts(fresh.entities)
            /\ rec.local_raw_text = db[m].raw_text
            /\ rec.local_entities = db[m].entities]_vars

\* a channel edit has just been made on a message whose stored copy was
\* not what the channel held: the record keeps both, the channel holds the
\* result on the fetched one
C12_Witness ==
    /\ report = "edited"
    /\ last_edit # NoLastEdit
    /\ LET m == last_edit.msg_id
           rec == db[m].edit_history[last_edit.backup_entry]
       IN /\ rec.local_raw_text # rec.telegram_raw_text
          /\ telegram[m].raw_text
               = search_replace_with_entities(
                     rec.telegram_raw_text,
                     dicts_to_entities(rec.telegram_entities),
                     search, replace, case_sensitive).new_text
          /\ telegram[m].raw_text
               # search_replace_with_entities(
                     rec.local_raw_text, dicts_to_entities(rec.local_entities),
                     search, replace, case_sensitive).new_text

\* the step handles an approved item whose fetched copy has text
ApprovedWithText ==
    /\ pc = "review" /\ edit_in_channel
    /\ report' \in {"no_replacements", "edited", "not_modified", "not_author",
                    "admin_required", "error"}

\* the URL payloads of the spans that are not empty, one per span
UrlPayloads(ents) == AllUrls(SelectSeq(ents, LAMBDA d : d.length > 0))

\* C13: in channel mode an approved item is a no-op (nothing pushed, no
\* record, stored copy and last_edit unchanged, counted as skipped) exactly
\* when the algorithm on the fetched copy finds no occurrence and leaves
\* every URL payload as it was; otherwise the new content is pushed, also
\* when the only change is a URL payload that becomes empty.
C13_StaleNoOp ==
    [][ApprovedWithText =>
         LET m == matches[idx]
             fresh == telegram[m]
             res == search_replace_with_entities(fresh.raw_text, fresh.entities,
                                                 search, replace, case_sensitive)
             unchanged == /\ res.count = 0
                          /\ UrlPayloads(res.new_entities)
                               = UrlPayloads(entities_to_dicts(fresh.entities))
         IN /\ ~IsExc(res) => (report' = "no_replacements" <=> unchanged)
            /\ report' = "no_replacements" =>
                 /\ db' = db /\ saved' = saved /\ telegram' = telegram
                 /\ counters' = Bump(counters, "skipped", 1)]_vars

\* the step handles an approved item whose push (or algorithm) failed
PushFailed ==
    /\ pc = "review" /\ edit_in_channel
    /\ report' \in {"not_modified", "not_author", "admin_required", "error"}

\* the loop goes on with the next item of the queue, if there is one
GoesOn ==
    IF idx < Len(matches)
    THEN pc' = "review" /\ idx' = idx + 1 /\ matches' = matches
    ELSE pc' \in {"final_undo", "menu"}

SkipStep == pc = "review" /\ report' = "skipped"

\* C16: a skip leaves the stored copy and the history of every message,
\* the saved database, the channel and last_edit as they are; only the
\* skipped counter moves.
C16_SkipChangesNothing ==
    [][SkipStep =>
         /\ db' = db /\ saved' = saved /\ telegram' = telegram
         /\ last_edit' = last_edit
         /\ counters' = Bump(counters, "skipped", 1)
         /\ GoesOn]_vars

\* the second item has just been skipped after a channel edit of the
\* first: last_edit still refers to that edit
C16_Witness ==
    /\ report = "skipped"
    /\ pc = "final_undo"
    /\ counters.skipped = 1 /\ counters.applied = 1
    /\ last_edit # NoLastEdit
    /\ last_edit.msg_id = 1
    /\ db = saved

\* the step is a quit or a cancel of the review loop
StopStep == pc = "review" /\ report' \in {"quit", "cancelled"}

\* C17: quit and cancel leave the loop without touching the stored copies,
\* the histories, the saved database or the channel, so no remaining item
\* is handled and the edits made before stay; after the loop no item is
\* reviewed again in this session; cancel ends in the state quit ends in.
C17_QuitAndCancel ==
    [][/\ StopStep =>
            /\ db' = db /\ saved' = saved /\ telegram' = telegram
            /\ counters' = counters
            /\ pc' = IF edit_in_channel /\ last_edit # NoLastEdit
                     THEN "final_undo" ELSE "menu"
            /\ last_edit' = last_edit
            /\ IF pc' = "menu" THEN idx' = 0 /\ matches' = <<>>
               ELSE idx' = idx /\ matches' = matches
            /\ UNCHANGED <<session_params, restorable, runs>>
       /\ pc = "final_undo" => pc' \in {"final_undo", "menu"}
       /\ (pc = "final_undo" /\ report' = "summary") =>
            db' = db /\ saved' = saved /\ telegram' = telegram]_vars

\* the loop has just been left at the second item, after a channel edit
\* of the first, which is still in place
C17_Witness ==
    /\ report \in {"quit", "cancelled"}
    /\ pc = "final_undo"
    /\ idx = 2 /\ Len(matches) = 2
    /\ counters.applied = 1
    /\ last_edit # NoLastEdit
    /\ db = saved
    /\ telegram[2] # None /\ telegram[2].raw_text = db[2].raw_text
    /\ db[2].edit_history = <<>>
    /\ CanRestore(db[1].edit_history[Len(db[1].edit_history)])

(***************************************************************************)
(* Building the queue                                                      *)
(***************************************************************************)
MaxQueueTextLen == 2   \* longest text of a stored message of the queue runs

\* stored messages with at most one span; one without stored entities,
\* whose spans are parsed from the markdown text
QueueMessages ==
    UNION {{StoredMsg(t, <<>>)}
           \cup {StoredMsg(t, <<d>>) : d \in SpansIn(Len(t))}
           \cup {[StoredMsg(t, <<>>) EXCEPT
                    !.text = entities_to_markdown(t, <<d>>)] :
                   d \in SpansIn(Len(t))}
           : t \in SeqsOf(TextAlphabet, 0, MaxQueueTextLen)}

InitQueue ==
    /\ pc = "build"
    /\ db \in {[m \in MsgIds |-> IF m = 1 THEN first ELSE second] :
                  first \in QueueMessages,
                  second \in StoredContents(2) \cup {StoredMsg(<<"A">>, <<>>)}}
    /\ search \in SeqsOf(SearchAlphabet, 1, MaxSearchLen)
    /\ case_sensitive \in BOOLEAN
    /\ saved = db
    /\ telegram = <<>>
    /\ matches = <<>>
    /\ idx = 0
    /\ last_edit = NoLastEdit
    /\ counters = ZeroCounters
    /\ edit_in_channel = FALSE
    /\ restorable = <<>>
    /\ report = "none"
    /\ runs = 0
    /\ raw_text = <<>> /\ entities = <<>> /\ result = None
    /\ replace = <<>>

\* matches = find_matching_messages(db, channel_id, search, case_sensitive)
BuildQueue ==
    /\ pc = "build"
    /\ matches' = find_matching_messages(db, search, case_sensitive)
    /\ pc' = "built"
    /\ UNCHANGED <<db, saved, telegram, idx, last_edit, counters,
                   edit_in_channel, restorable, report, runs, call_vars, result>>

NextQueue == BuildQueue

SpecQueue == InitQueue /\ [][NextQueue]_vars

\* the probe of the algorithm on message m: an occurrence in the text, or
\* a URL payload that comes out different
Admitted(m) ==
    LET doc == get_message_entities(db[m])
        res == search_replace_with_entities(doc.raw_text, doc.entities, search,
                                            <<>>, case_sensitive)
    IN /\ doc.raw_text # <<>>
       /\ ~IsExc(res)
       /\ \/ res.count > 0
          \/ AllUrls(res.new_entities) # AllUrls(doc.entities)

NoZeroLength(ents) == \A k \in 1..Len(ents) : ents[k].length > 0

\* C19: no span of length 0 is stored: not in the spans of a message, in
\* memory or saved, and not in the spans a record of the history keeps as
\* the content before the edit, fetched from the channel or stored.
C19_NoZeroLengthPersisted ==
    \A m \in DOMAIN db :
        /\ NoZeroLength(db[m].entities)
        /\ NoZeroLength(saved[m].entities)
        /\ \A i \in 1..Len(saved[m].edit_history) :
              LET rec == saved[m].edit_history[i]
              IN /\ NoZeroLength(Get(rec, "telegram_entities", <<>>))
                 /\ NoZeroLength(Get(rec, "local_entities", <<>>))
                 /\ NoZeroLength(Get(rec, "original_entities", <<>>))

(***************************************************************************)
(* Commits statement by statement, with crashes                            *)
(***************************************************************************)
\* the durable store after save_database(db_path, db): the whole database
save_database(d) == d

\* approve in _process_local_edits up to save_database: the history entry
\* is appended and the new values are applied, in memory
LocalMutate ==
    /\ Prompted
    /\ ~edit_in_channel
    /\ db' = [db EXCEPT ![CurrentId] = LocallyEditedMsg(CurrentMsg, actual_preview)]
    /\ result' = [before |-> CurrentMsg, fresh |-> None,
                  count |-> actual_preview.replacement_count + url_replacements]
    /\ pc' = "mutated"
    /\ report' = "approved"
    /\ UNCHANGED <<saved, telegram, counters, matches, idx, last_edit,
                   session_params, restorable, runs, raw_text, entities>>

\* LocalFlush that does not save
LocalFlush_unsaved ==
    /\ pc = "mutated"
    /\ UNCHANGED saved
    /\ counters' = Bump(Bump(counters, "applied", 1), "total_replacements",
                        result.count)
    /\ report' = "updated_locally"
    /\ result' = None
    /\ Continue(last_edit, FALSE)
    /\ UNCHANGED <<db, telegram, session_params, restorable, runs, raw_text,
                   entities>>

\* save_database and the counters of _process_local_edits; the loop goes on
LocalFlush ==
    /\ pc = "mutated"
    /\ saved' = save_database(db)
    /\ counters' = Bump(Bump(counters, "applied", 1), "total_replacements",
                        result.count)
    /\ report' = "updated_locally"
    /\ result' = None
    /\ Continue(last_edit, FALSE)
    /\ UNCHANGED <<db, telegram, session_params, restorable, runs, raw_text,
                   entities>>

\* approve in _process_channel_edits when nothing is pushed or the push fails
ChannelNoCommit ==
    /\ ApproveChannel
    /\ report' # "edited"

\* approve in _process_channel_edits up to the return of client.edit_message
ChannelPush ==
    /\ Prompted
    /\ edit_in_channel
    /\ get_messages(CurrentId) # None
    /\ get_messages(CurrentId).raw_text # <<>>
    /\ LET m == CurrentId
           telegram_msg == get_messages(m)
           res == search_replace_with_entities(telegram_msg.raw_text,
                                               telegram_msg.entities,
                                               search, replace, case_sensitive)
           fresh_entities_dicts ==
               entities_to_dicts(ArgAfterCall(telegram_msg.raw_text,
                                              telegram_msg.entities, search,
                                              replace, case_sensitive))
           url_changes == UrlChanges(NonEmptyUrls(fresh_entities_dicts),
                                     NonEmptyUrls(res.new_entities))
           new_entity_objs == dicts_to_entities(res.new_entities)
       IN /\ ~IsExc(res)
          /\ res.count + url_changes > 0
          /\ "ok" \in edit_message(m, res.new_text, new_entity_objs)
          /\ telegram' = [telegram EXCEPT ![m] =
                [raw_text |-> res.new_text, entities |-> new_entity_objs]]
          /\ result' = [before |-> CurrentMsg, fresh |-> telegram_msg,
                        backup_entry |-> BackupEntry(CurrentMsg,
                                                     telegram_msg.raw_text,
                                                     fresh_entities_dicts,
                                                     search, replace),
                        new_raw_text |-> res.new_text,
                        new_entities_dicts |-> res.new_entities,
                        count |-> res.count + url_changes]
    /\ pc' = "pushed"
    /\ report' = "pushed"
    /\ UNCHANGED <<db, saved, counters, matches, idx, last_edit,
                   session_params, restorable, runs, raw_text, entities>>

\* the backup is appended and the new content mirrored, in memory
ChannelMirror ==
    /\ pc = "pushed"
    /\ db' = [db EXCEPT ![CurrentId] =
                 EditedMsg(CurrentMsg, result.backup_entry, result.new_raw_text,
                           result.new_entities_dicts)]
    /\ pc' = "mirrored"
    /\ UNCHANGED <<saved, telegram, counters, matches, idx, last_edit, report,
                   session_params, restorable, runs, direct_call>>

\* save_database, the counters and last_edit; the loop goes on
ChannelFlush ==
    /\ pc = "mirrored"
    /\ saved' = save_database(db)
    /\ counters' = Bump(Bump(counters, "applied", 1), "total_replacements",
                        result.count)
    /\ report' = "edited"
    /\ result' = None
    /\ Continue(LastEdit(CurrentId, CurrentMsg, result.count), FALSE)
    /\ UNCHANGED <<db, telegram, session_params, restorable, runs, raw_text,
                   entities>>

\* the process dies during a session: what is in memory is lost, a later
\* start would load the saved database; result keeps the commit under way
Crash ==
    /\ pc \in {"review", "mutated", "pushed", "mirrored", "final_undo"}
    /\ pc' = "crashed"
    /\ db' = saved
    /\ last_edit' = NoLastEdit
    /\ report' = "crashed"
    /\ UNCHANGED <<saved, telegram, counters, matches, idx, session_params,
                   restorable, runs, direct_call>>

NextCrash ==
    \/ search_replace_messages
    \/ LocalMutate
    \/ LocalFlush
    \/ ChannelNoCommit
    \/ ChannelPush
    \/ ChannelMirror
    \/ ChannelFlush
    \/ Skip
    \/ Quit
    \/ Cancel
    \/ Undo
    \/ FinalUndo
    \/ FinalKeep
    \/ Crash

SpecCrash == Init /\ [][NextCrash]_vars

\* the step applies an approved local edit in memory
LocalMutateStep == pc = "review" /\ pc' = "mutated"

\* C14: an approved local edit appends a record whose before-state is the
\* stored raw_text, entities and text, replaces them with the result of the
\* algorithm on the local copy, and saves the database before the loop
\* shows another item; whenever an item is shown, and after the loop, the
\* saved database holds every edit approved so far.
C14_LocalCommit ==
    /\ [](pc \in {"review", "final_undo", "menu"} => saved = db)
    /\ [][/\ LocalMutateStep =>
               LET m == matches[idx]
                   doc == get_message_entities(db[m])
                   res == search_replace_with_entities(doc.raw_text, doc.entities,
                                                       search, replace,
                                                       case_sensitive)
                   rec == db'[m].edit_history[Len(db'[m].edit_history)]
               IN /\ Len(db'[m].edit_history) = Len(db[m].edit_history) + 1
                  /\ rec.original_raw_text = db[m].raw_text
                  /\ rec.original_entities = db[m].entities
                  /\ rec.original_text = db[m].text
                  /\ db'[m].raw_text = res.new_text
                  /\ db'[m].entities = res.new_entities
                  /\ db'[m].text = entities_to_markdown(res.new_text,
                                                        res.new_entities)
                  /\ \A n \in MsgIds \ {m} : db'[n] = db[n]
          /\ (pc = "mutated" /\ pc' # "crashed") =>
               /\ db' = db /\ saved' = db
               /\ report' = "updated_locally"
               /\ counters'.applied = counters.applied + 1]_vars

\* the second item of a local session is shown: the edit of the first is
\* in the saved database
C14_Witness ==
    /\ pc = "review" /\ idx = 2
    /\ ~edit_in_channel
    /\ report = "updated_locally"
    /\ counters.applied = 1
    /\ LET m == matches[1]
           rec == saved[m].edit_history[Len(saved[m].edit_history)]
       IN /\ IsLocalRecord(rec)
          /\ rec.original_raw_text # saved[m].raw_text
          /\ saved[m] = db[m]

\* C20: after a crash the saved database holds, for the message of the
\* commit under way, the complete state before the commit or the complete
\* state after it, and a commit whose save did not complete has not been
\* applied: the saved message is the one before the commit and the channel
\* holds what it held before the commit, in local and in channel mode.
C20_CrashSafety ==
    (pc = "crashed" /\ result # None) =>
        LET m == matches[idx]
        IN /\ saved[m] = result.before
           /\ result.fresh # None => telegram[m] = result.fresh

(***************************************************************************)
(* Undo inside the review loop                                             *)
(***************************************************************************)
\* the operator chooses Undo while an item is under review
UndoInLoop == pc = "review" /\ UndoDecision

\* C21: when the operator chooses Undo while item k of the queue is under
\* review, item k is under review again after the undo, whatever the
\* outcome of the undo: no item is passed over without a decision.
C21_UndoKeepsPendingItem ==
    [][UndoInLoop => (pc' = "review" /\ idx' = idx /\ matches' = matches)]_vars

\* the push of an undo fails, in the loop or at the question after it
UndoFails == pc \in {"review", "final_undo"} /\ report' = "undo_failed"

\* C22: when the push of an undo fails, the backup entry stays restorable
\* and is not marked restored, the database, the saved database, the
\* channel and the counters are unchanged, and the entry is in the list
\* restore_edited_messages builds.
C22_FailedUndoKeepsBackup ==
    [][UndoFails =>
         LET m == last_edit.msg_id
             k == last_edit.backup_entry
             entry == db'[m].edit_history[k]
         IN /\ db' = db /\ saved' = saved /\ telegram' = telegram
            /\ counters' = counters
            /\ CanRestore(entry) /\ ~WasRestored(entry)
            /\ \E j \in 1..Len(RestorableList(db', SortedIds(DOMAIN db'))) :
                  RestorableList(db', SortedIds(DOMAIN db'))[j] =
                      [msg_id |-> m, history_index |-> k]]_vars

\* an undo has failed after one commit of the session: the commit is still
\* counted and its entry is still restorable
C22_Witness ==
    /\ report = "undo_failed"
    /\ counters.applied = 1 /\ counters.restored = 0
    /\ saved = db
    /\ \E e \in Entries : /\ CanRestore(Entry(e)) /\ ~WasRestored(Entry(e))
                          /\ IsRestorable(Entry(e))
                          /\ telegram[e[1]] # None
                          /\ telegram[e[1]].raw_text = db[e[1]].raw_text

(***************************************************************************)
(* Direct calls on span lists with unrecognized records and on empty texts *)
(***************************************************************************)
MaxSpanTextLen == 2   \* longest text of these calls
MaxSpanListLen == 2   \* most spans of these calls

\* persisted records that dict_to_entity decodes
RecognizedRecords == {Bold(0, 1), Bold(1, 1), TextUrl(0, 1, <<"a">>)}

\* persisted records with an unknown _type or without one
UnrecognizedRecords ==
    {[_type |-> "MessageEntityUnknown", offset |-> 0, length |-> 1],
     [offset |-> 0, length |-> 1]}

\* in-memory spans, as Telethon hands them out
SpanObjects == {dict_to_entity(d) : d \in RecognizedRecords}

InitSpans ==
    /\ pc = "call"
    /\ raw_text \in SeqsOf(SearchAlphabet, 0, MaxSpanTextLen)
    /\ entities \in SeqsOf(RecognizedRecords \cup UnrecognizedRecords, 0,
                           MaxSpanListLen)
                    \cup SeqsOf(SpanObjects, 1, MaxSpanListLen)
    /\ search \in {<<"a">>, <<"b">>}
    /\ replace \in {<<>>, <<"b", "b">>}
    /\ case_sensitive \in BOOLEAN
    /\ result = None
    /\ NoWorkflow

\* dicts_to_entities called on a list of persisted records
DecodeCollection ==
    /\ pc = "call"
    /\ \A k \in 1..Len(entities) : IsDict(entities[k])
    /\ result' = dicts_to_entities(entities)
    /\ pc' = "decoded"
    /\ UNCHANGED <<call_vars, workflow_vars>>

NextSpans == CallReplace \/ DecodeCollection

SpecSpans == InitSpans /\ [][NextSpans]_vars

\* the record has a _type that ENTITY_TYPES knows
Recognized(d) == IsDict(d) /\ "_type" \in DOMAIN d /\ d._type \in ENTITY_TYPES

\* the span list of the call without its unrecognized records
RecognizedOnly(ents) == SelectSeq(ents, LAMBDA e : ~IsDict(e) \/ Recognized(e))

\* C29: for an empty text, any span list, given as in-memory spans or as
\* persisted records, and any non-empty search, the call raises no error
\* and returns the text unchanged, the span set unchanged and count 0.
C29_EmptyText ==
    (Returned /\ raw_text = <<>>) =>
        /\ ~IsExc(result)
        /\ result.new_text = <<>>
        /\ result.count = 0
        /\ result.new_entities =
              Map(entities, LAMBDA e : IF IsDict(e) THEN e ELSE entity_to_dict(e))

\* C23: dict_to_entity returns None for a record without _type or with an
\* unknown one; decoding a list omits exactly those records; a call of
\* replace on a list that holds such records raises no error and returns
\* what the call on the list without them returns.
C23_UnrecognizedDropped ==
    /\ pc = "decoded" =>
          /\ \A k \in 1..Len(entities) :
                ~Recognized(entities[k]) => dict_to_entity(entities[k]) = None
          /\ result = Map(RecognizedOnly(entities), dict_to_entity)
    /\ Returned =>
          /\ ~IsExc(result)
          /\ result = search_replace_with_entities(raw_text,
                                                   RecognizedOnly(entities),
                                                   search, replace,
                                                   case_sensitive)

(***************************************************************************)
(* The local copy and the channel                                          *)
(***************************************************************************)
\* a push to the channel succeeded: a commit, an undo or a channel restore
PushedOk ==
    \/ pc = "review" /\ report' = "edited"
    \/ pc \in {"review", "final_undo"} /\ report' = "undone"
    \/ pc = "restore" /\ report' = "restored"

\* the message the step works on
OperatedDoc ==
    IF pc = "restore" THEN restorable[idx].msg_id
    ELSE IF report' = "edited" THEN matches[idx]
    ELSE last_edit.msg_id

\* the local raw_text and entities of m are what the channel holds
MirrorEquals(d, t, m) ==
    /\ t[m] # None
    /\ d[m].raw_text = t[m].raw_text
    /\ dicts_to_entities(d[m].entities) = t[m].entities

\* C24: right after a successful channel commit, undo or channel restore
\* of a message its local raw_text and entities are the content just
\* pushed; in channel mode the database changes only in a step whose push
\* succeeded, and only for the message pushed.
C24_LocalMirrorsRemote ==
    [][/\ PushedOk =>
            /\ telegram'[OperatedDoc] # telegram[OperatedDoc]
            /\ MirrorEquals(db', telegram', OperatedDoc)
       /\ (edit_in_channel /\ pc \in {"review", "final_undo", "restore"}
             /\ db' # db) =>
            /\ PushedOk
            /\ \A m \in MsgIds \ {OperatedDoc} :
                  db'[m] = db[m] /\ telegram'[m] = telegram[m]]_vars

\* a commit on content that differed from the stored copy has been undone:
\* the local copy is the content the undo pushed, not the copy stored before
C24_Witness ==
    /\ report = "undone"
    /\ \E m \in MsgIds :
          /\ db[m].restored_from_backup
          /\ MirrorEquals(db, telegram, m)
          /\ LET backup == db[m].edit_history[Len(db[m].edit_history)]
             IN /\ backup.local_raw_text # backup.telegram_raw_text
                /\ db[m].raw_text = backup.telegram_raw_text
                /\ telegram[m].entities # <<>>

(***************************************************************************)
(* Batch replacement                                                       *)
(***************************************************************************)
\* the history entry batch_search_replace appends
BatchEntry(msg, s, r) ==
    [action |-> "batch_search_replace",
     search |-> s,
     replace |-> r,
     original_raw_text |-> msg.raw_text,
     original_text |-> msg.text]

\* BatchEditedMsg that starts the history anew
BatchEditedMsg_overwrites(msg, preview, s, r) ==
    [msg EXCEPT !.edit_history = <<BatchEntry(msg, s, r)>>,
                !.raw_text = preview.raw_text,
                !.text = preview.text,
                !.entities = preview.entities]

\* the message after the batch applied the preview
BatchEditedMsg(msg, preview, s, r) ==
    [msg EXCEPT !.edit_history = Append(@, BatchEntry(msg, s, r)),
                !.raw_text = preview.raw_text,
                !.text = preview.text,
                !.entities = preview.entities]

\* the loop over matches; raised tells that apply_replacement_to_message
\* raised, which ends the call
RECURSIVE BatchLoop(_, _, _, _, _, _)
BatchLoop(st, ids, s, r, cs, dry_run) ==
    IF ids = <<>> \/ st.raised THEN st
    ELSE LET m == Head(ids)
             msg == st.messages[m]
             preview == apply_replacement_to_message(msg, s, r, cs)
         IN IF preview = None THEN BatchLoop(st, Tail(ids), s, r, cs, dry_run)
            ELSE IF IsExc(preview) THEN [st EXCEPT !.raised = TRUE]
            ELSE BatchLoop(
                   [messages |-> IF dry_run THEN st.messages
                                 ELSE [st.messages EXCEPT ![m] =
                                          BatchEditedMsg(msg, preview, s, r)],
                    replaced |-> st.replaced + 1,
                    total_replacements |-> st.total_replacements
                                             + preview.replacement_count,
                    raised |-> FALSE],
                   Tail(ids), s, r, cs, dry_run)

\* what batch_search_replace returns or raises: the messages after the
\* call, whether the database was saved, and the statistics; found is the
\* list of matches, st the state after the loop
BatchReturn(messages, find_raises, found, st, dry_run) ==
    IF find_raises
    THEN [messages |-> messages, save |-> FALSE, stats |-> Raise("re.error")]
    ELSE IF found = <<>>
    THEN [messages |-> messages, save |-> FALSE,
          stats |-> [found |-> 0, replaced |-> 0, total_replacements |-> 0]]
    ELSE IF st.raised
    THEN [messages |-> st.messages, save |-> FALSE,
          stats |-> Raise("re.error")]
    ELSE [messages |-> st.messages, save |-> ~dry_run,
          stats |-> [found |-> Len(found), replaced |-> st.replaced,
                     total_replacements |-> st.total_replacements,
                     dry_run |-> dry_run]]

\* BatchOver that applies the changes whatever dry_run is
BatchOver_applies(messages, found, s, r, cs, dry_run) ==
    BatchLoop([messages |-> messages, replaced |-> 0,
               total_replacements |-> 0, raised |-> FALSE],
              found, s, r, cs, FALSE)

\* the loop of batch_search_replace over the matches found
BatchOver(messages, found, s, r, cs, dry_run) ==
    BatchLoop([messages |-> messages, replaced |-> 0,
               total_replacements |-> 0, raised |-> FALSE],
              found, s, r, cs, dry_run)

batch_search_replace(messages, s, r, cs, dry_run) ==
    BatchReturn(messages, FindRaises(messages, s, cs),
                find_matching_messages(messages, s, cs),
                BatchOver(messages, find_matching_messages(messages, s, cs),
                          s, r, cs, dry_run),
                dry_run)

\* the state after a call that came back with out
BatchReturned(p, dry_run, out) ==
    /\ search' = p.search
    /\ replace' = p.replace
    /\ case_sensitive' = p.case_sensitive
    /\ db' = out.messages
    /\ saved' = IF out.save THEN out.messages ELSE saved
    /\ result' = out.stats
    /\ report' = IF IsExc(out.stats) THEN "exception"
                 ELSE IF out.stats.found = 0 THEN "batch_none_found"
                 ELSE IF dry_run THEN "batch_dry_run"
                 ELSE "batch_replaced"

\* a call of batch_search_replace between sessions
BatchCall ==
    /\ pc = "menu"
    /\ runs < MaxRuns
    /\ \E p \in SessionParams, dry_run \in BOOLEAN :
          BatchReturned(p, dry_run,
                        batch_search_replace(db, p.search, p.replace,
                                             p.case_sensitive, dry_run))
    /\ runs' = runs + 1
    /\ UNCHANGED <<pc, telegram, matches, idx, last_edit, counters,
                   edit_in_channel, restorable, raw_text, entities>>

NextBatch == Next \/ BatchCall

\* the runs with batch calls start with a channel that holds what the
\* database holds
InitBatch ==
    /\ pc = "menu"
    /\ db \in {d \in [MsgIds -> UNION {StoredContents(m) : m \in MsgIds}] :
                  \A m \in MsgIds : d[m] \in StoredContents(m)}
    /\ telegram = [m \in MsgIds |-> TelegramMsg(db[m].raw_text, db[m].entities)]
    /\ saved = db
    /\ matches = <<>>
    /\ idx = 0
    /\ last_edit = NoLastEdit
    /\ counters = ZeroCounters
    /\ edit_in_channel = FALSE
    /\ restorable = <<>>
    /\ report = "none"
    /\ runs = 0
    /\ raw_text = <<>> /\ entities = <<>> /\ result = None
    /\ search = <<>> /\ replace = <<>> /\ case_sensitive = TRUE

SpecBatch == InitBatch /\ [][NextBatch]_vars

\* a call of batch_search_replace with dry_run = True came back
DryRunStep == pc = "menu" /\ report' = "batch_dry_run"

\* the statistics the same call returns with dry_run = False
WetStats(messages, s, r, cs) == batch_search_replace(messages, s, r, cs, FALSE).stats

\* C28: a call of batch_search_replace with dry_run = True leaves every
\* message, the saved database and the channel as they were, and returns
\* the found, replaced and total_replacements figures that the call with
\* dry_run = False returns on the same database.
C28_DryRunChangesNothing ==
    [][DryRunStep =>
         /\ db' = db /\ saved' = saved /\ telegram' = telegram
         /\ result'.dry_run
         /\ result'.found = WetStats(db, search', replace', case_sensitive').found
         /\ result'.replaced =
               WetStats(db, search', replace', case_sensitive').replaced
         /\ result'.total_replacements =
               WetStats(db, search', replace', case_sensitive').total_replacements]_vars

\* a dry run has counted two messages that the call without dry_run would
\* change, and no message has a batch entry
C28_Witness ==
    /\ pc = "menu" /\ report = "batch_dry_run"
    /\ result.found = 2 /\ result.replaced = 2 /\ result.total_replacements >= 1
    /\ db = saved
    /\ \A m \in MsgIds :
          /\ \A k \in 1..Len(db[m].edit_history) :
                db[m].edit_history[k].action # "batch_search_replace"
          /\ batch_search_replace(db, search, replace, case_sensitive,
                                  FALSE).messages[m] # db[m]

(***************************************************************************)
(* The edit history                                                        *)
(***************************************************************************)
\* an entry without the given keys
Without(entry, keys) == [k \in DOMAIN entry \ keys |-> entry[k]]

\* every entry of every history is still there, in its place, and differs
\* from what it was in the given keys at most
HistoryKeptUpTo(keys) ==
    \A m \in MsgIds :
        /\ Len(db'[m].edit_history) >= Len(db[m].edit_history)
        /\ \A k \in 1..Len(db[m].edit_history) :
              Without(db'[m].edit_history[k], keys)
                 = Without(db[m].edit_history[k], keys)

\* the marks of the claim: restorable, restored, time of the restore
RestoreMarks == {"can_restore", "restored", "restore_date"}

\* C25 as stated: under local commits, channel commits, batch calls, undos
\* and restores no history loses or reorders entries, and an existing entry
\* changes in its can_restore, restored and restore_date marks at most.
C25_AsStated == [][HistoryKeptUpTo(RestoreMarks)]_vars

\* C25 amended: under local commits, channel commits, batch calls, undos
\* and restores no history loses or reorders entries, and an existing entry
\* changes in its can_restore, restored, restore_date and
\* restored_locally_only marks at most; its action, search, replace and
\* before-state fields never change.
C25_HistoryAppendOnly ==
    [][HistoryKeptUpTo(RestoreMarks \cup {"restored_locally_only"})]_vars

\* a history whose first entry has been restored and marked, and to which
\* a batch call has appended since
C25_Witness ==
    \E m \in MsgIds :
        /\ Len(db[m].edit_history) >= 2
        /\ WasRestored(db[m].edit_history[1])
        /\ db[m].edit_history[1].action = "channel_search_replace"
        /\ db[m].edit_history[Len(db[m].edit_history)].action
              = "batch_search_replace"

(***************************************************************************)
(* Order of processing                                                     *)
(***************************************************************************)
\* the queue of the session is strictly ascending and idx is inside it
QueueInOrder ==
    pc \in {"review", "final_undo"} =>
        /\ 1 <= idx /\ idx <= Len(matches)
        /\ \A j, k \in 1..Len(matches) : j < k => matches[j] < matches[k]

\* a commit of either mode
AnyCommitStep == CommitStep \/ LocalCommitStep

\* C26: the items of a session are taken up one at a time in queue order:
\* every step of the loop either goes on to the next item or ends the
\* loop, so an item gets one commit attempt at most and the loop ends after
\* len(matches) decisions at most; a commit changes the message under
\* review only, and its id is greater than the id of every item before it.
C26_ProcessingOrder ==
    /\ []QueueInOrder
    /\ [][/\ pc = "review" =>
                \/ /\ pc' = "review" /\ idx' = idx + 1 /\ matches' = matches
                   /\ idx' <= Len(matches)
                \/ pc' \in {"final_undo", "menu"}
          /\ AnyCommitStep =>
                /\ db'[matches[idx]] # db[matches[idx]]
                /\ \A m \in MsgIds \ {matches[idx]} : db'[m] = db[m]
                /\ \A j \in 1..(idx - 1) : matches[j] < matches[idx]]_vars

\* both items of a queue have been committed in the channel, one after the
\* other, and the loop has ended
C26_Witness ==
    /\ pc = "final_undo"
    /\ matches = <<1, 2>> /\ idx = 2
    /\ counters.applied = 2
    /\ last_edit.msg_id = 2
    /\ report = "edited"
    /\ db[1].edited_on_telegram /\ db[2].edited_on_telegram

(***************************************************************************)
(* Probing and previewing                                                  *)
(***************************************************************************)
\* find_matching_messages has run: the queue is built or nothing was found
QueueBuilt ==
    pc = "menu" /\ report' \in {"found", "no_messages_found", "exception"}

\* the span list of the stored message m after a call of the algorithm on
\* it with replacement r
StoredSpansAfter(m, r) ==
    ArgAfterCall(get_message_entities(db[m]).raw_text,
                 get_message_entities(db[m]).entities, search, r, case_sensitive)

ChannelSessionStep == edit_in_channel /\ pc \in {"review", "final_undo"}

\* total_changes of the commit of the item under review
ChangeCount ==
    LET fresh == telegram[matches[idx]]
        res == search_replace_with_entities(fresh.raw_text, fresh.entities,
                                            search, replace, case_sensitive)
    IN res.count + UrlChanges(NonEmptyUrls(entities_to_dicts(fresh.entities)),
                              NonEmptyUrls(res.new_entities))

\* no counter is negative; the commit remembered for undo is counted
CountersInRange ==
    (edit_in_channel /\ pc \in {"review", "final_undo"}) =>
        /\ counters.applied >= 0 /\ counters.skipped >= 0
        /\ counters.errors >= 0 /\ counters.restored >= 0
        /\ counters.total_replacements >= counters.applied
        /\ last_edit # NoLastEdit =>
              /\ counters.applied >= 1
              /\ last_edit.count >= 1
              /\ counters.total_replacements >= last_edit.count

\* C30: in a channel session the counters start at zero and are never
\* negative; a successful commit adds one to applied and its change count
\* to total_replacements; a successful undo takes one from applied and the
\* change count of the undone commit from total_replacements and adds one
\* to restored; no other step changes applied, restored or
\* total_replacements.
C30_SessionCounters ==
    /\ []CountersInRange
    /\ [][/\ (pc = "menu" /\ pc' = "review") => counters' = ZeroCounters
          /\ ChannelSessionStep =>
               CASE report' = "edited" /\ pc = "review" ->
                      /\ counters'.applied = counters.applied + 1
                      /\ counters'.restored = counters.restored
                      /\ counters'.total_replacements
                            = counters.total_replacements + ChangeCount
                      /\ last_edit'.msg_id = matches[idx]
                      /\ last_edit'.count = ChangeCount
                 [] report' = "undone" ->
                      /\ counters'.applied = counters.applied - 1
                      /\ counters'.restored = counters.restored + 1
                      /\ counters'.total_replacements
                            = counters.total_replacements - last_edit.count
                      /\ counters'.total_replacements >= 0
                 [] OTHER ->
                      /\ counters'.applied = counters.applied
                      /\ counters'.restored = counters.restored
                      /\ counters'.total_replacements
                            = counters.total_replacements]_vars

\* two commits, the second undone at the question after the loop: one
\* commit is still counted, with its change count
C30_Witness ==
    /\ pc = "menu" /\ report = "undone" /\ edit_in_channel
    /\ counters.applied = 1 /\ counters.restored = 1
    /\ counters.total_replacements >= 1
    /\ db[1].edited_on_telegram /\ ~db[1].restored_from_backup
    /\ db[2].restored_from_backup

====
